---- MODULE Spec2Model ----
(***************************************************************************)
(* Model of extended_choices: the Choices collection (choices.py), the     *)
(* ChoiceEntry tuple and its typed attributes (helpers.py) and the         *)
(* NamedExtendedChoiceFormField form field (fields.py).                    *)
(*                                                                         *)
(* Python values are encoded as follows.                                   *)
(*   - strings, numbers and None are TLA+ strings ("A", "1", "None");      *)
(*     "[]" stands for an unhashable value (a list);                       *)
(*   - a positional argument is tagged with its Python type:               *)
(*     [t |-> "str"], [t |-> "tuple"], [t |-> "entry"], [t |-> "int"];     *)
(*   - a dict is the sequence of its <<key, value>> items in insertion     *)
(*     order;                                                              *)
(*   - an object identity is the `id` field of the record of the object.   *)
(***************************************************************************)
EXTENDS Integers, Sequences, FiniteSets, TLC

VARIABLES coll, extracted, op, err, ret

vars == <<coll, extracted, op, err, ret>>

(***************************************************************************)
(* Bounds of the model.                                                    *)
(***************************************************************************)
\* Largest number of choices a collection plus an incoming batch may hold.
MaxEntries == 2

(***************************************************************************)
(* Python constants.                                                       *)
(***************************************************************************)
None == "None"
Unhashable == "[]"
NoError == "ok"
_NO_SUBSET_NAME_ == "__NO_SUBSET_NAME__"

\* The absence of an object (no collection built yet, nothing returned).
Null == [t |-> "null"]

Str(s) == [t |-> "str", s |-> s]
Tup(items) == [t |-> "tuple", items |-> items]

\* The 4th element of a choice tuple: None, a mapping, or something else.
NoneAttrs == [kind |-> "none"]
MapAttrs(items) == [kind |-> "map", items |-> items]
OtherAttrs == [kind |-> "other"]

(***************************************************************************)
(* Sequence and dict helpers.                                              *)
(***************************************************************************)
Range(s) == {s[i] : i \in 1..Len(s)}

Tail1(s) == SubSeq(s, 2, Len(s))

\* Index of the item of dict d whose key equals k (0 when absent).  The keys
\* of the three lookup dicts are typed attributes; they hash and compare as
\* the value of their base type.
KeyRaw(k) == k.base

DictIndex(d, k) ==
    IF \E i \in 1..Len(d) : KeyRaw(d[i][1]) = k
    THEN CHOOSE i \in 1..Len(d) : KeyRaw(d[i][1]) = k
    ELSE 0

DictHas(d, k) == DictIndex(d, k) # 0

DictGet(d, k) == d[DictIndex(d, k)][2]

\* A dict whose assignment never replaces the value of an existing key
DictSet_KeepFirst(d, key, v) ==
    IF \E i \in 1..Len(d) : KeyRaw(d[i][1]) = KeyRaw(key) THEN d
    ELSE Append(d, <<key, v>>)

\* d[key] = v : an existing key keeps its position and its key object.
DictSet(d, key, v) ==
    LET i == DictIndex(d, KeyRaw(key))
    IN  IF i = 0 THEN Append(d, <<key, v>>)
        ELSE [d EXCEPT ![i] = <<d[i][1], v>>]

DictKeys(d) == [i \in 1..Len(d) |-> d[i][1]]

DictRawKeys(d) == {KeyRaw(d[i][1]) : i \in 1..Len(d)}

\* The instance __dict__ entries set through setattr: name -> value.
AttrIndex(a, name) ==
    IF \E i \in 1..Len(a) : a[i][1] = name
    THEN CHOOSE i \in 1..Len(a) : a[i][1] = name
    ELSE 0

AttrSet(a, name, v) ==
    LET i == AttrIndex(a, name)
    IN  IF i = 0 THEN Append(a, <<name, v>>)
        ELSE [a EXCEPT ![i] = <<name, v>>]

AttrNames(a) == {a[i][1] : i \in 1..Len(a)}

\* kwargs.get(key, default)
KwGet(kw, key, default) == IF key \in DOMAIN kw THEN kw[key] ELSE default

NoKw == [k \in {} |-> None]

\* Python truthiness of an optional string
Truthy(s) == s # None /\ s # ""

(***************************************************************************)
(* helpers.py : typed attributes and ChoiceEntry.                          *)
(***************************************************************************)
\* Items of a mapping given as 4th element (empty for None).
AttrItems(attributes) ==
    IF attributes.kind = "map" THEN attributes.items ELSE <<>>

\* bool(attributes): None and the empty mapping are falsy.
AttrTruthy(attributes) ==
    attributes.kind = "other" \/ (attributes.kind = "map" /\ Len(attributes.items) > 0)

\* The value that setattr leaves under `name` on an object whose field was
\* first set to `first` and that then receives every item of the mapping
AfterSetattr(items, name, first) ==
    IF name \in AttrNames(items) THEN items[AttrIndex(items, name)][2] ELSE first

\* The items copied on an object: those of a truthy attributes mapping
Copied(attributes) == IF AttrTruthy(attributes) THEN AttrItems(attributes) ELSE <<>>

\* create_choice_attribute: an instance of the class made for the type of
\* `value`.  Its base type holds value (lines 71-86); __init__ saves value
\* and the entry of identity `choice_entry`, then sets every item of the
\* entry's attributes on the instance (lines 114-118).
create_choice_attribute(value, choice_entry, attributes) ==
    [t |-> "attr",
     base |-> value,
     original_value |-> AfterSetattr(Copied(attributes), "original_value", value),
     choice_entry |-> AfterSetattr(Copied(attributes), "choice_entry", choice_entry),
     attrs |-> Copied(attributes)]

\* bool(v) of a raw value: None, 0 and the empty string are falsy
bool(v) == v \notin {None, "0", ""}

\* ChoiceAttributeMixin.__bool__
ChoiceAttribute_bool(self) == bool(self.original_value)

\* No key is reserved
ReservedKeys_None == {}

\* Line 283: the keys that the attributes cannot hold
ReservedKeys == {"constant", "value", "display"}

\* The pair in the wrong order
EntryChoice_Swapped(value, display) == <<display, value>>

\* Line 297 of helpers.py: the pair expected by django
EntryChoice(value, display) == <<value, display>>

\* Lines 286-304: the object built from a tuple that passed the checks, its
\* three typed attributes being made; the items of the attributes are set
\* on it last.
EntryMade(tuple_, id, attributes, constant, value, display) ==
    [t |-> "entry",
     id |-> id,
     tuple |-> SubSeq(tuple_, 1, 3),
     attributes |-> AfterSetattr(Copied(attributes), "attributes", attributes),
     constant |-> constant,
     value |-> value,
     display |-> display,
     choice |-> AfterSetattr(Copied(attributes), "choice", EntryChoice(value, display)),
     extra |-> Copied(attributes)]

\* ChoiceEntry.__new__(tuple_) for the object of identity id.  The result is
\* [err, entry]; entry is Null when an error is raised.
ChoiceEntry_new(tuple_, id) ==
    LET attributes == IF Len(tuple_) = 4 THEN tuple_[4] ELSE NoneAttrs
        fail(e) == [err |-> e, entry |-> Null]
    IN
    IF ~(3 <= Len(tuple_) /\ Len(tuple_) <= 4)
    THEN fail("AssertionError:arity")
    ELSE IF attributes.kind = "other"
    THEN fail("AssertionError:attributes_type")
    ELSE IF AttrTruthy(attributes)
            /\ \E i \in 1..Len(attributes.items) : attributes.items[i][1] \in ReservedKeys
    THEN fail("AssertionError:reserved_key")
    ELSE IF tuple_[1] = None \/ tuple_[2] = None \/ tuple_[3] = None
    THEN fail("ValueError:none")
    ELSE [err |-> NoError,
          entry |-> EntryMade(tuple_, id, attributes,
                              create_choice_attribute(tuple_[1], id, attributes),
                              create_choice_attribute(tuple_[2], id, attributes),
                              create_choice_attribute(tuple_[3], id, attributes))]

\* getattr(entry, name) for the name of a field or of a copied item
Entry_getattr(entry, name) ==
    IF name \in {"attributes", "constant", "value", "display", "choice"}
    THEN [err |-> NoError, ret |-> entry[name]]
    ELSE IF name \in AttrNames(entry.extra)
    THEN [err |-> NoError, ret |-> entry.extra[AttrIndex(entry.extra, name)][2]]
    ELSE [err |-> "AttributeError", ret |-> Null]

\* The properties constant, value and display of a typed attribute (lines
\* 120-133): the attribute `name` of self.choice_entry, entries being the
\* entries that exist.  AttributeError when self.choice_entry is no entry.
ChoiceAttribute_property(self, name, entries) ==
    IF \E e \in entries : e.id = self.choice_entry
    THEN [err |-> NoError,
          ret |-> (CHOOSE e \in entries : e.id = self.choice_entry)[name]]
    ELSE [err |-> "AttributeError", ret |-> Null]

\* getattr(self, name) of a typed attribute for the name of a copied item
ChoiceAttribute_getattr(self, name) ==
    IF name = "original_value" THEN [err |-> NoError, ret |-> self.original_value]
    ELSE IF name = "choice_entry" THEN [err |-> NoError, ret |-> self.choice_entry]
    ELSE IF name \in AttrNames(self.attrs)
    THEN [err |-> NoError, ret |-> self.attrs[AttrIndex(self.attrs, name)][2]]
    ELSE [err |-> "AttributeError", ret |-> Null]

\* The class ChoiceAttributeMixin, and the concrete type of a raw value: 1
\* and 0 are integers, the other values are strings
ChoiceAttributeMixin == [class |-> "ChoiceAttributeMixin"]

TypeOf(v) ==
    IF v \in {"1", "0"} THEN "int"
    ELSE IF v = "1.5" THEN "float"
    ELSE IF v = "True" THEN "bool"
    ELSE "str"

\* Lines 159-163: the class that cls makes for a type, with its bases and its
\* creator_type
NewClass(cls, type_) == [bases |-> <<cls, type_>>, creator_type |-> cls]

\* Line 166: cls._classes_by_type[type_], the dict being an attribute of the
\* class ChoiceAttributeMixin that its subclasses inherit
CachedClass(classes, cls, type_) ==
    classes[CHOOSE i \in 1..Len(classes) : classes[i][1] = type_][2]

\* The outcome of get_class_for_value: the error raised, the class returned
\* and the dict _classes_by_type after the call
Got(classes, cls, type_) ==
    [err |-> NoError, ret |-> CachedClass(classes, cls, type_), classes |-> classes]

\* A class made at every call for a raw value, the dict keeping it alone
get_class_for_value_NoCache(classes, cls, value) ==
    IF value.t = "instance"
    THEN [err |-> NoError, ret |-> value.class, classes |-> classes]
    ELSE Got(<< <<TypeOf(value.v), NewClass(cls, TypeOf(value.v))>> >>,
             cls, TypeOf(value.v))

\* cls.get_class_for_value(value) (lines 149-166) with the dict
\* _classes_by_type being `classes`.  value is a raw value or an instance of
\* a class made here; bool is no acceptable base type for type().
get_class_for_value(classes, cls, value) ==
    IF value.t = "instance"
    THEN [err |-> NoError, ret |-> value.class, classes |-> classes]
    ELSE IF \E i \in 1..Len(classes) : classes[i][1] = TypeOf(value.v)
    THEN Got(classes, cls, TypeOf(value.v))
    ELSE IF TypeOf(value.v) = "bool"
    THEN [err |-> "TypeError", ret |-> Null, classes |-> classes]
    ELSE Got(Append(classes, <<TypeOf(value.v), NewClass(cls, TypeOf(value.v))>>),
             cls, TypeOf(value.v))

\* Line 222: klass(value, choice_entry), r being the outcome of line 221; an
\* instance of a typed attribute given as value is wrapped by its own class
Instantiated(r, value) ==
    IF r.err # NoError THEN r
    ELSE [r EXCEPT !.ret = [t |-> "instance", class |-> r.ret,
                            v |-> value.v]]

\* self.creator_type of a typed attribute made by ChoiceAttributeMixin: the
\* attribute of its class unless an item of that name was set on it
ChoiceAttribute_creator_type(self) ==
    AfterSetattr(self.attrs, "creator_type", ChoiceAttributeMixin)

\* ChoiceEntry.__reduce__ (lines 343-355): the tuple given to
\* self.__class__ to make the entry again
ChoiceEntry_reduce(self) ==
    <<self.constant.original_value, self.value.original_value,
      self.display.original_value, self.attributes>>

\* ChoiceAttributeMixin.__reduce__ (lines 180-191): the arguments given to
\* create_choice_attribute to make the typed attribute again
ChoiceAttribute_reduce(self) ==
    <<ChoiceAttribute_creator_type(self), self.original_value, self.choice_entry>>

\* The third argument once pickled and loaded: an entry built again by its
\* class as the object of identity id, any other object being itself
\* (entry is Null for it)
LoadedEntry(choice_entry, entries, id) ==
    IF \E e \in entries : e.id = choice_entry
    THEN ChoiceEntry_new(ChoiceEntry_reduce(CHOOSE e \in entries : e.id = choice_entry), id)
    ELSE [err |-> NoError, entry |-> Null]

\* create_choice_attribute(creator_type, value, choice_entry) as pickle.loads
\* calls it (lines 221-222), r being the outcome of loading choice_entry:
\* get_class_for_value exists on a class only, and __init__ reads the
\* attributes of choice_entry (line 116)
LoadedAttribute(creator_type, value, r) ==
    IF r.err # NoError THEN [err |-> r.err, ret |-> Null, entry |-> Null]
    ELSE IF creator_type # ChoiceAttributeMixin
    THEN [err |-> "AttributeError", ret |-> Null, entry |-> Null]
    ELSE IF r.entry = Null
    THEN [err |-> "AttributeError", ret |-> Null, entry |-> Null]
    ELSE [err |-> NoError,
          ret |-> create_choice_attribute(value, r.entry.id, r.entry.attributes),
          entry |-> r.entry]

\* pickle.loads(pickle.dumps(self)) of a typed attribute, args being what
\* __reduce__ gave
LoadedFrom(args, entries, id) ==
    LoadedAttribute(args[1], args[2], LoadedEntry(args[3], entries, id))

(***************************************************************************)
(* choices.py : the Choices collection.                                    *)
(***************************************************************************)
\* Names that are attributes of every Choices instance: the methods and
\* properties of the class and of list, and the fields set by __init__.
ClassAttrs ==
    {"ChoiceEntryClass", "choices", "_convert_choices", "add_choices",
     "extract_subset", "add_subset", "for_constant", "for_value",
     "for_display", "has_constant", "has_value", "has_display",
     "dict_class", "entries", "subsets", "constants", "values", "displays",
     "_mutable", "append", "clear", "copy", "count", "extend", "index",
     "insert", "pop", "remove", "reverse", "sort"}

hasattr(self, name) == name \in ClassAttrs \/ name \in AttrNames(self.attrs)

\* getattr(self, name), defined when hasattr(self, name)
getattr(self, name) ==
    IF name \in AttrNames(self.attrs)
    THEN self.attrs[AttrIndex(self.attrs, name)][2]
    ELSE [t |-> "builtin", name |-> name]

\* The outcome of a method call: the error raised (NoError when none), the
\* object after the call and the value returned.
Outcome(self, e, r) == [err |-> e, self |-> self, ret |-> r]

\* c[0] and c[1] of an element of *choices
Item(c, i) == IF c.t = "entry" THEN c.tuple[i] ELSE c.items[i]

ItemLen(c) == IF c.t = "entry" THEN 3 ELSE Len(c.items)

\* Lines 295-297: the entry of an element of the batch, built from the tuple
\* unless the element is an entry already
ToEntry(self, choice_tuple) ==
    IF choice_tuple.t = "entry"
    THEN [err |-> NoError, entry |-> choice_tuple]
    ELSE ChoiceEntry_new(choice_tuple.items,
                         [owner |-> self.owner, n |-> Len(self.entries) + 1])

\* The entry added in front of the list and of the entries
AddEntry_First(self, choice_entry) ==
    [self EXCEPT
       !.list = <<choice_entry.choice>> \o @,
       !.entries = <<choice_entry>> \o @,
       !.attrs = AttrSet(@, KeyRaw(choice_entry.constant), choice_entry.value),
       !.constants = DictSet(@, choice_entry.constant, choice_entry),
       !.values = DictSet(@, choice_entry.value, choice_entry),
       !.displays = DictSet(@, choice_entry.display, choice_entry)]

\* The subsets recorded share the list and the entries of their parent: the
\* entry is added to them as well
AddEntry_Shared(self, choice_entry) ==
    [self EXCEPT
       !.list = Append(@, choice_entry.choice),
       !.entries = Append(@, choice_entry),
       !.attrs = AttrSet([i \in DOMAIN @ |->
                            IF @[i][1] \in Range(self.subsets)
                            THEN <<@[i][1],
                                   [@[i][2] EXCEPT
                                      !.list = Append(@, choice_entry.choice),
                                      !.entries = Append(@, choice_entry)]>>
                            ELSE @[i]],
                         KeyRaw(choice_entry.constant), choice_entry.value),
       !.constants = DictSet(@, choice_entry.constant, choice_entry),
       !.values = DictSet(@, choice_entry.value, choice_entry),
       !.displays = DictSet(@, choice_entry.display, choice_entry)]

\* Lines 299-310: the entry added to the list, the entries, the attributes
\* and the three tables
AddEntry(self, choice_entry) ==
    [self EXCEPT
       !.list = Append(@, choice_entry.choice),
       !.entries = Append(@, choice_entry),
       !.attrs = AttrSet(@, KeyRaw(choice_entry.constant), choice_entry.value),
       !.constants = DictSet(@, choice_entry.constant, choice_entry),
       !.values = DictSet(@, choice_entry.value, choice_entry),
       !.displays = DictSet(@, choice_entry.display, choice_entry)]

RECURSIVE AddEach(_, _)

\* One turn of the loop of lines 291-310, `made` being the outcome of the
\* construction of the entry: the loop stops at the first error.
AddMade(self, made, rest) ==
    IF made.err # NoError THEN Outcome(self, made.err, Null)
    ELSE AddEach(AddEntry(self, made.entry), rest)

\* Lines 291-310: the loop that adds each choice
AddEach(self, choices) ==
    IF choices = <<>> THEN Outcome(self, NoError, Null)
    ELSE AddMade(self, ToEntry(self, choices[1]), Tail1(choices))

\* Line 312: the outcome r of a call, returning value when r raised nothing
Returning(r, value) ==
    IF r.err # NoError THEN r ELSE Outcome(r.self, NoError, value)

\* No constant is found declared twice
ConstantsDoubles_None(constants) == {}

\* Line 256: the constants declared more than once in the batch
ConstantsDoubles(constants) ==
    {constants[i] : i \in {k \in 1..Len(constants) :
                              \E j \in 1..Len(constants) : j # k /\ constants[j] = constants[k]}}

\* No check of the new constants against the constants of the collection
ExistingConstants_Skipped(self, constants) == {}

\* Line 262: the new constants that are constants of the collection
ExistingConstants(self, constants) == Range(constants) \cap DictRawKeys(self.constants)

\* No check of the new constants against the attributes of the collection
ExistingAttributes_Skipped(self, constants) == {}

\* Line 268: the new constants that are attributes of the collection
ExistingAttributes(self, constants) == {c \in Range(constants) : hasattr(self, c)}

\* Line 275: the values declared more than once in the batch
ValuesDoubles(values) ==
    {values[i] : i \in {k \in 1..Len(values) :
                           \E j \in 1..Len(values) : j # k /\ values[j] = values[k]}}

\* No check of the new values against the values of the collection
ExistingValues_Skipped(self, values) == {}

\* Line 282: the new values that are values of the collection
ExistingValues(self, values) == Range(values) \cap DictRawKeys(self.values)

\* Choices._convert_choices.  c[0] of line 255 and c[1] of line 273 raise
\* IndexError on a tuple that is too short, and hasattr of line 268 raises
\* TypeError on a constant that is not a string.
_convert_choices(self, choices) ==
    LET constants == [i \in 1..Len(choices) |-> Item(choices[i], 1)]
        values == [i \in 1..Len(choices) |-> Item(choices[i], 2)]
    IN
    IF \E i \in 1..Len(choices) : ItemLen(choices[i]) < 1
    THEN Outcome(self, "IndexError", Null)
    ELSE IF ConstantsDoubles(constants) # {}
    THEN Outcome(self, "ValueError:duplicate_constants", Null)
    ELSE IF ExistingConstants(self, constants) # {}
    THEN Outcome(self, "ValueError:existing_constants", Null)
    ELSE IF None \in Range(constants)
    THEN Outcome(self, "TypeError:attribute_name", Null)
    ELSE IF ExistingAttributes(self, constants) # {}
    THEN Outcome(self, "ValueError:existing_attributes", Null)
    ELSE IF \E i \in 1..Len(choices) : ItemLen(choices[i]) < 2
    THEN Outcome(self, "IndexError", Null)
    ELSE IF ValuesDoubles(values) # {}
    THEN Outcome(self, "ValueError:duplicate_values", Null)
    ELSE IF Unhashable \in Range(values)
    THEN Outcome(self, "ValueError:unhashable_value", Null)
    ELSE IF ExistingValues(self, values) # {}
    THEN Outcome(self, "ValueError:existing_values", Null)
    ELSE Returning(AddEach(self, choices), constants)

(***************************************************************************)
(* choices.py : AutoDisplayChoices and AutoChoices.  The elements of the   *)
(* tuples given to these classes are tagged with their kind: a raw value   *)
(* [kind |-> "raw"], None [kind |-> "none"] or a mapping [kind |-> "map"]. *)
(***************************************************************************)
Raw(v) == [kind |-> "raw", v |-> v]

\* A transform that returns the constant itself
Transform_Identity(transform, const) == const

\* The functions used as transforms, on the constants of the model:
\*   "capitalize" is const.lower().replace('_', ' ').capitalize() (line 924),
\*   "lower" is const.lower() (line 1013), "reverse" is const[::-1],
\*   "title" is const.title().  "A" is the first character of "AB".
Transform(transform, const) ==
    IF transform = "capitalize"
    THEN (IF const = "AB" THEN "Ab" ELSE IF const = "C_D" THEN "C d" ELSE const)
    ELSE IF transform = "lower"
    THEN (IF const = "AB" THEN "ab" ELSE IF const = "C_D" THEN "c_d"
          ELSE IF const = "A" THEN "a" ELSE const)
    ELSE IF transform = "reverse"
    THEN (IF const = "AB" THEN "BA" ELSE IF const = "C_D" THEN "D_C" ELSE const)
    ELSE (IF const = "AB" THEN "Ab" ELSE IF const = "C_D" THEN "C_D" ELSE const)

\* The display_transform and value_transform defined on a class; MyAutoChoices
\* is a subclass of AutoChoices that overrides both
ClassTransform(cls, which) ==
    IF cls = "MyAutoChoices"
    THEN (IF which = "display_transform" THEN "lower" ELSE "reverse")
    ELSE (IF which = "display_transform" THEN "capitalize" ELSE "lower")

\* Lines 927 and 1016: kwargs.pop(which, None) or the transform of the class
InstanceTransform(cls, kwargs, which) ==
    IF KwGet(kwargs, which, None) # None THEN kwargs[which]
    ELSE ClassTransform(cls, which)

\* The classes that define value_transform, and those that define
\* display_transform
AutoValueClasses == {"AutoChoices", "MyAutoChoices"}
AutoDisplayClasses == {"AutoDisplayChoices"} \cup AutoValueClasses

\* The instance attributes that __init__ sets before it adds the choices
InitAttrs(cls, kwargs) ==
    (IF cls \in AutoValueClasses
     THEN << <<"value_transform", InstanceTransform(cls, kwargs, "value_transform")>> >>
     ELSE <<>>)
    \o (IF cls \in AutoDisplayClasses
        THEN << <<"display_transform", InstanceTransform(cls, kwargs, "display_transform")>> >>
        ELSE <<>>)

\* self.display_transform(const) and self.value_transform(const): the
\* string methods do not exist on a constant that is no string
CallTransform(self, which, const) ==
    IF const.kind # "raw" THEN [err |-> "AttributeError", ret |-> Null]
    ELSE [err |-> NoError,
          ret |-> Raw(Transform(self.attrs[AttrIndex(self.attrs, which)][2], const.v))]

\* Lines 949 and 1048: the last element of a tuple of more than `least`
\* elements is a mapping
EndsWithMapping(choice, least) ==
    Len(choice) > least /\ choice[Len(choice)].kind = "map"

\* No attributes are kept
KeptAttributes_None(choice, least) == <<>>

\* Lines 949-955 and 1048-1054: the attributes kept at the end of
\* final_choice
KeptAttributes(choice, least) ==
    IF EndsWithMapping(choice, least) THEN <<choice[Len(choice)]>>
    ELSE IF Len(choice) = 4 /\ AttrTruthy(choice[4]) THEN <<choice[4]>>
    ELSE <<>>

\* The same lines: what is left of choice once the attributes are popped
AfterPop(choice, least) ==
    IF EndsWithMapping(choice, least) \/ Len(choice) = 4
    THEN SubSeq(choice, 1, Len(choice) - 1)
    ELSE choice

\* Lines 944 and 953, 1043 and 1052: the assertions on a tuple
TupleRefused(choice, least) ==
    IF ~(least <= Len(choice) /\ Len(choice) <= 4) THEN "AssertionError:arity"
    ELSE IF ~EndsWithMapping(choice, least) /\ Len(choice) = 4
            /\ choice[4].kind \notin {"none", "map"}
    THEN "AssertionError:attributes_type"
    ELSE NoError

\* Lines 968-970, d being the outcome of display_transform
WithDisplay(rest, d, kept) ==
    IF d.err # NoError THEN [err |-> d.err, choice |-> Null]
    ELSE [err |-> NoError, choice |-> <<rest[1], rest[2], d.ret>> \o kept]

\* Lines 940-970: the final_choice of a tuple given to AutoDisplayChoices,
\* rest being the tuple without its attributes
AutoDisplayFinal(self, rest, kept) ==
    IF Len(rest) > 2
    THEN [err |-> NoError, choice |-> <<rest[1], rest[2], rest[3]>> \o kept]
    ELSE WithDisplay(rest, CallTransform(self, "display_transform", rest[1]), kept)

\* The final_choice of a turn as a list, r being the outcome of the turn
Listed(r) ==
    IF r.err # NoError THEN r
    ELSE [err |-> NoError, choice |-> [t |-> "list", items |-> r.choice]]

\* One turn of the loop of lines 934-970 on an element that is no entry
AutoDisplayOne(self, choice) ==
    IF TupleRefused(choice, 2) # NoError
    THEN [err |-> TupleRefused(choice, 2), choice |-> Null]
    ELSE Listed(AutoDisplayFinal(self, AfterPop(choice, 2), KeptAttributes(choice, 2)))

\* Lines 1069-1073, v being the outcome of value_transform
WithValue(rest, v, kept) ==
    IF v.err # NoError THEN [err |-> v.err, choice |-> Null]
    ELSE [err |-> NoError,
          choice |-> <<rest[1], v.ret>>
                     \o (IF Len(rest) > 2 THEN <<rest[3]>> ELSE <<>>) \o kept]

\* Lines 1056-1073: the final_choice of a tuple given to AutoChoices
AutoFinal(self, rest, kept) ==
    IF Len(rest) > 1 /\ rest[2].kind # "none"
    THEN [err |-> NoError,
          choice |-> <<rest[1], rest[2]>>
                     \o (IF Len(rest) > 2 THEN <<rest[3]>> ELSE <<>>) \o kept]
    ELSE WithValue(rest, CallTransform(self, "value_transform", rest[1]), kept)

\* One turn of the loop of lines 1027-1073 on the list made of an element
AutoOne(self, choice) ==
    IF TupleRefused(choice, 1) # NoError
    THEN [err |-> TupleRefused(choice, 1), choice |-> Null]
    ELSE Listed(AutoFinal(self, AfterPop(choice, 1), KeptAttributes(choice, 1)))

\* The element handed to Choices._convert_choices: the plain values of a
\* final_choice, a mapping in place of a value being unhashable
Plain(x) ==
    IF x.kind = "raw" THEN x.v ELSE IF x.kind = "none" THEN None ELSE Unhashable

AsTuple(final_choice) ==
    Tup([i \in 1..Len(final_choice) |->
            IF i <= 3 THEN Plain(final_choice[i]) ELSE final_choice[i]])

\* Lines 1034-1039: the list made of an element given to AutoChoices
AsList(choice) == IF choice.t = "str" THEN <<Raw(choice.s)>> ELSE choice.items

\* The error of the first element that a loop refuses, results being the
\* outcomes of its turns
FirstError(results) ==
    results[CHOOSE i \in 1..Len(results) :
               /\ results[i].err # NoError
               /\ \A j \in 1..(i - 1) : results[j].err = NoError].err

\* final_choices of AutoChoices._convert_choices (lines 1026-1073), the
\* marker _NO_SUBSET_NAME_ being skipped: each is an entry or a list of
\* tagged values
AutoFinals(self, choices) ==
    [i \in 1..Len(choices) |->
        IF choices[i].t = "entry" THEN [err |-> NoError, choice |-> choices[i]]
        ELSE IF choices[i] = Str(_NO_SUBSET_NAME_) THEN [err |-> NoError, choice |-> Null]
        ELSE AutoOne(self, AsList(choices[i]))]

\* The choices that a loop made, the skipped elements being left out
RECURSIVE Made(_)
Made(results) ==
    IF results = <<>> THEN <<>>
    ELSE (IF results[1].choice = Null THEN <<>> ELSE <<results[1].choice>>)
         \o Made(Tail1(results))

\* Line 940: list(choice), the list of a string being its characters
Chars(s) ==
    IF s = "AB" THEN <<Raw("A"), Raw("B")>>
    ELSE IF s = "C_D" THEN <<Raw("C"), Raw("_"), Raw("D")>>
    ELSE <<Raw(s)>>

AsDisplayList(choice) == IF choice.t = "str" THEN Chars(choice.s) ELSE choice.items

\* final_choices of AutoDisplayChoices._convert_choices (lines 933-970), each
\* given element being an entry, a string or a list of tagged values
AutoDisplayFinals(self, choices) ==
    [i \in 1..Len(choices) |->
        IF choices[i].t = "entry" THEN [err |-> NoError, choice |-> choices[i]]
        ELSE AutoDisplayOne(self, AsDisplayList(choices[i]))]

\* Line 972, finals being the outcomes of the loop
AutoDisplayConverted(self, finals) ==
    IF \E i \in 1..Len(finals) : finals[i].err # NoError
    THEN Outcome(self, FirstError(finals), Null)
    ELSE _convert_choices(self,
            [i \in 1..Len(finals) |->
                IF finals[i].choice.t = "entry" THEN finals[i].choice
                ELSE AsTuple(finals[i].choice.items)])

\* AutoDisplayChoices._convert_choices
AutoDisplay_convert_choices(self, choices) ==
    AutoDisplayConverted(self, AutoDisplayFinals(self, choices))

\* Line 1075, finals being the outcomes of the loop
AutoConverted(self, finals) ==
    IF \E i \in 1..Len(finals) : finals[i].err # NoError
    THEN Outcome(self, FirstError(finals), Null)
    ELSE AutoDisplay_convert_choices(self, Made(finals))

\* AutoChoices._convert_choices
Auto_convert_choices(self, choices) ==
    AutoConverted(self, AutoFinals(self, choices))

\* self._convert_choices(choices) for the class of self
Call_convert_choices(self, choices) ==
    IF self.cls \in AutoValueClasses THEN Auto_convert_choices(self, choices)
    ELSE IF self.cls = "AutoDisplayChoices" THEN AutoDisplay_convert_choices(self, choices)
    ELSE _convert_choices(self, choices)

RECURSIVE Choices_init(_, _, _, _)
RECURSIVE add_choices(_, _, _)
RECURSIVE extract_subset(_, _)
RECURSIVE add_subset(_, _, _)

\* The method of Choices for every class
Call_add_choices_Plain(self, choices, kwargs) == add_choices(self, choices, kwargs)

\* self.add_choices(*choices, **kwargs) for the class of self: the method of
\* AutoChoices (lines 1019-1021) puts the marker before the choices
Call_add_choices(self, choices, kwargs) ==
    add_choices(self,
                IF self.cls \in AutoValueClasses
                THEN <<Str(_NO_SUBSET_NAME_)>> \o choices ELSE choices,
                kwargs)

\* The end of an __init__ that leaves the instance mutable
Initialised_Mutable(r, kwargs) ==
    IF r.err # NoError THEN Outcome(Null, r.err, Null) ELSE r

\* Lines 222-223: the end of __init__, r being the outcome of add_choices.
\* On an error no object is returned (self is Null).
Initialised(r, kwargs) ==
    IF r.err # NoError THEN Outcome(Null, r.err, Null)
    ELSE Outcome([r.self EXCEPT !._mutable = KwGet(kwargs, "mutable", TRUE)],
                 NoError, Null)

\* __init__(*choices, **kwargs) of class cls; owner is the identity of the
\* new object.  The classes that generate values or displays save their
\* transforms first (lines 927 and 1016); self.add_choices of line 221 is
\* the method of AutoChoices for its instances (lines 1019-1021), which
\* puts the marker _NO_SUBSET_NAME_ before the choices.
Choices_init(cls, choices, kwargs, owner) ==
    Initialised(
        Call_add_choices([t |-> "choices",
                          cls |-> cls,
                          owner |-> owner,
                          dict_class |-> KwGet(kwargs, "dict_class", "dict"),
                          list |-> <<>>,
                          entries |-> <<>>,
                          subsets |-> <<>>,
                          constants |-> <<>>,
                          values |-> <<>>,
                          displays |-> <<>>,
                          attrs |-> InitAttrs(cls, kwargs),
                          _mutable |-> TRUE],
                         choices,
                         [name |-> KwGet(kwargs, "name", None)]),
        kwargs)

\* A subset made of every constant of the collection
SubsetOfAdded_AllConstants(r, subset_name) ==
    IF r.err # NoError THEN r
    ELSE IF Truthy(subset_name)
    THEN add_subset(r.self, subset_name,
                    [i \in 1..Len(r.self.entries) |-> r.self.entries[i].tuple[1]])
    ELSE Outcome(r.self, NoError, Null)

\* Lines 390-392: the subset of the constants just added, r being the
\* outcome of _convert_choices
SubsetOfAdded(r, subset_name) ==
    IF r.err # NoError THEN r
    ELSE IF Truthy(subset_name) THEN add_subset(r.self, subset_name, r.ret)
    ELSE Outcome(r.self, NoError, Null)

\* A name given twice is never refused
NameTwice_Never(kwname, name1) == FALSE

\* Lines 382-383: the subset name is given by the name option and by the
\* leading argument
NameTwice(kwname, name1) == Truthy(kwname) /\ Truthy(name1)

\* Choices.add_choices(*choices, **kwargs)
add_choices(self, choices, kwargs) ==
    IF ~self._mutable THEN Outcome(self, "RuntimeError:immutable", Null)
    ELSE
    LET first_is_name == /\ choices # <<>>
                         /\ choices[1].t = "str"
                         /\ choices[1].s # _NO_SUBSET_NAME_
        name1 == IF first_is_name THEN choices[1].s ELSE None
        choices1 == IF first_is_name THEN Tail1(choices) ELSE choices
        kwname == KwGet(kwargs, "name", None)
    IN  IF NameTwice(kwname, name1)
        THEN Outcome(self, "ValueError:name_twice", Null)
        ELSE SubsetOfAdded(Call_convert_choices(self, choices1),
                           IF Truthy(kwname) THEN kwname ELSE name1)

\* The entries asked for, in the order of the parent
SubsetEntries_ParentOrder(self, constants) ==
    LET idx == {i \in 1..Len(self.entries) : self.entries[i].tuple[1] \in Range(constants)}
        RECURSIVE Sorted(_)
        Sorted(S) == IF S = {} THEN <<>>
                     ELSE LET m == CHOOSE x \in S : \A y \in S : x <= y
                          IN  <<self.entries[m]>> \o Sorted(S \ {m})
    IN  Sorted(idx)

\* The entries asked for, each taken once
SubsetEntries_Once(self, constants) ==
    LET first == {i \in 1..Len(constants) :
                     \A j \in 1..(i - 1) : constants[j] # constants[i]}
        RECURSIVE From(_)
        From(i) == IF i > Len(constants) THEN <<>>
                   ELSE IF i \in first
                   THEN <<DictGet(self.constants, constants[i])>> \o From(i + 1)
                   ELSE From(i + 1)
    IN  From(1)

\* Line 448: the entries asked for, in the order asked
SubsetEntries(self, constants) ==
    [i \in 1..Len(constants) |-> DictGet(self.constants, constants[i])]

\* A subset left mutable
SubsetKwargs_NoMutable(self) == [dict_class |-> self.dict_class]

\* Lines 456-459: the configuration given to a subset
SubsetKwargs(self) == [dict_class |-> self.dict_class, mutable |-> FALSE]

\* Line 462: the subset returned, r being the outcome of its construction
Extracted(self, r) ==
    IF r.err # NoError THEN Outcome(self, r.err, Null)
    ELSE Outcome(self, NoError, r.self)

\* No constant is ever found missing
bad_constants_None(self, constants) == {}

\* Line 442: the constants asked for that are not constants of the
\* collection, which the error message lists
bad_constants(self, constants) == Range(constants) \ DictRawKeys(self.constants)

\* Choices.extract_subset(*constants): returns the subset in ret.  The lookup
\* of line 448 raises KeyError for a key that the dict does not hold.
extract_subset(self, constants) ==
    IF bad_constants(self, constants) # {}
    THEN Outcome(self, "ValueError:missing_constants", Null)
    ELSE IF \E i \in 1..Len(constants) : ~DictHas(self.constants, constants[i])
    THEN Outcome(self, "KeyError", Null)
    ELSE Extracted(self,
                   Choices_init(self.cls, SubsetEntries(self, constants),
                                SubsetKwargs(self), Append(self.owner, "subset")))

\* Lines 528-530: the subset set as attribute and recorded, r being the
\* outcome of extract_subset
Recorded(self, name, r) ==
    IF r.err # NoError THEN r
    ELSE Outcome([self EXCEPT !.attrs = AttrSet(@, name, r.ret),
                              !.subsets = Append(@, name)],
                 NoError, Null)

\* Choices.add_subset(name, constants)
add_subset(self, name, constants) ==
    IF hasattr(self, name)
    THEN Outcome(self, "ValueError:subset_name_is_attribute", Null)
    ELSE Recorded(self, name, extract_subset(self, constants))

\* Choices.for_constant / for_value / for_display: the entry, or KeyError
for_constant(self, constant) ==
    IF DictHas(self.constants, constant)
    THEN Outcome(self, NoError, DictGet(self.constants, constant))
    ELSE Outcome(self, "KeyError", Null)

for_value(self, value) ==
    IF DictHas(self.values, value)
    THEN Outcome(self, NoError, DictGet(self.values, value))
    ELSE Outcome(self, "KeyError", Null)

for_display(self, display) ==
    IF DictHas(self.displays, display)
    THEN Outcome(self, NoError, DictGet(self.displays, display))
    ELSE Outcome(self, "KeyError", Null)

\* Choices.has_constant / has_value / has_display / __contains__
has_constant(self, constant) == DictHas(self.constants, constant)

\* A has_value that looks into the displays table
has_value_InDisplays(self, value) == DictHas(self.displays, value)

has_value(self, value) == DictHas(self.values, value)

has_display(self, display) == DictHas(self.displays, display)

Choices_contains(self, item) == has_value(self, item)

\* An index that counts from one
ListItem_FromOne(list, i) ==
    IF 1 <= i /\ i <= Len(list) THEN [err |-> NoError, ret |-> list[i]]
    ELSE [err |-> "IndexError", ret |-> Null]

\* list.__getitem__(i) (line 750): positions count from 0, negative ones
\* from the end
ListItem(list, i) ==
    IF 0 <= i /\ i < Len(list) THEN [err |-> NoError, ret |-> list[i + 1]]
    ELSE IF -Len(list) <= i /\ i < 0 THEN [err |-> NoError, ret |-> list[Len(list) + i + 1]]
    ELSE [err |-> "IndexError", ret |-> Null]

\* Choices.__getitem__ (lines 748-755) for an integer or a string
Choices_getitem(self, key) ==
    IF key.t = "int" THEN ListItem(self.list, key.v)
    ELSE IF ~hasattr(self, key.s) THEN [err |-> "KeyError", ret |-> Null]
    ELSE [err |-> NoError, ret |-> getattr(self, key.s)]

\* The elements of the other operand of ==, as plain tuples: a Choices is a
\* list of (value, display) pairs whose members compare as what they wrap.
Elements(other) ==
    IF other.t = "choices"
    THEN [i \in 1..Len(other.list) |->
             <<KeyRaw(other.list[i][1]), KeyRaw(other.list[i][2])>>]
    ELSE other.items

\* An equality that always compares the (value, display) pairs
Choices_eq_PairsOnly(self, other) == Elements(self) = Elements(other)

\* Choices.__eq__(other), other being a Choices, a list or a tuple
Choices_eq(self, other) ==
    LET o == Elements(other)
    IN  IF o # <<>> /\ Len(o[1]) = 3
        THEN [i \in 1..Len(self.entries) |-> self.entries[i].tuple] = o
        ELSE Elements(self) = o

\* The raw tuple of an entry without its attributes
ReduceEntry_NoAttributes(entry) ==
    <<entry.constant.original_value, entry.value.original_value,
      entry.display.original_value, NoneAttrs>>

\* Lines 830-838: the raw tuple of an entry
ReduceEntry(entry) ==
    <<entry.constant.original_value, entry.value.original_value,
      entry.display.original_value, entry.attributes>>

\* Lines 840-851: a subset as its name and the raw constants of its keys
ReduceSubset(self, subset_name) ==
    LET keys == DictKeys(getattr(self, subset_name).constants)
    IN  <<subset_name, [i \in 1..Len(keys) |-> keys[i].original_value]>>

\* Choices.__reduce__: the arguments given to create_choice
Choices_reduce(self) ==
    [klass |-> self.cls,
     choices |-> [i \in 1..Len(self.entries) |-> Tup(ReduceEntry(self.entries[i]))],
     subsets |-> [i \in 1..Len(self.subsets) |-> ReduceSubset(self, self.subsets[i])],
     kwargs |-> [dict_class |-> self.dict_class, mutable |-> self._mutable]]

RECURSIVE AddSubsets(_, _)

\* One turn of the loop of lines 1102-1103, r being the outcome of add_subset
AddedSubset(r, rest) ==
    IF r.err # NoError THEN r ELSE AddSubsets(r.self, rest)

\* Lines 1102-1103: the subsets added in order
AddSubsets(obj, subsets) ==
    IF subsets = <<>> THEN Outcome(obj, NoError, obj)
    ELSE AddedSubset(add_subset(obj, subsets[1][1], subsets[1][2]), Tail1(subsets))

\* Lines 1101-1104, r being the outcome of the constructor
Created(r, subsets) ==
    IF r.err # NoError THEN r ELSE AddSubsets(r.self, subsets)

\* create_choice(klass, choices, subsets, kwargs); owner is the identity of
\* the object created
create_choice(klass, choices, subsets, kwargs, owner) ==
    Created(Choices_init(klass, choices, kwargs, owner), subsets)

(***************************************************************************)
(* fields.py : NamedExtendedChoiceFormField.                               *)
(***************************************************************************)
\* NamedExtendedChoiceFormField.to_python(value) of a field on `choices`;
\* value is None ([t |-> "none"]), a string or something else.
to_python(choices, value) ==
    IF value.t = "none" THEN Outcome(choices, NoError, value)
    ELSE IF value.t # "str"
    THEN Outcome(choices, "ValidationError:invalid-choice-type", Null)
    ELSE IF hasattr(choices, value.s)
    THEN Outcome(choices, NoError, getattr(choices, value.s))
    ELSE Outcome(choices, "ValidationError:non-existing-choice", Null)

(***************************************************************************)
(* Inputs of the calls.                                                    *)
(***************************************************************************)
\* Well-formed choice tuples, with and without an attributes mapping.  Two
\* of them may share a constant, a value or a display.
GoodTuples ==
    {Tup(<<"A", "1", "x", MapAttrs(<< <<"k", "v">> >>)>>),
     Tup(<<"B", "2", "y">>),
     Tup(<<"B", "2", "x">>),
     Tup(<<"B", "1", "y">>)}

\* Choice tuples that some check refuses: a constant that is an attribute
\* of the class, a null constant, a null or unhashable value, a wrong arity,
\* a 4th element that holds a reserved key.
OddTuples ==
    {Tup(<<"values", "2", "y">>),
     Tup(<<None, "1", "x">>),
     Tup(<<"B">>),
     Tup(<<"B", None, "y">>),
     Tup(<<"B", Unhashable, "y">>),
     Tup(<<"B", "2">>),
     Tup(<<"B", "2", "y", MapAttrs(<< <<"value", "v">> >>)>>)}

Tuples == GoodTuples \cup OddTuples

SeqsUpTo(S, n) == UNION {[1..k -> S] : k \in 0..n}

\* Batches of at most n choice tuples
Batches(n) == SeqsUpTo(Tuples, n)

\* Arguments given to add_choices of an immutable collection
FewBatches == {<<Tup(<<"B", "2", "y">>)>>, <<Tup(<<"B", "2">>)>>}

\* The optional leading subset name of *choices
LeadNames == {None, "S"}

WithLead(lead, batch) == IF lead = None THEN batch ELSE <<Str(lead)>> \o batch

\* The optional name keyword
NameKws == {NoKw, [name |-> "S"]}

\* Keyword arguments of the constructor
InitKws ==
    {NoKw, [name |-> "S"], [mutable |-> FALSE, dict_class |-> "OrderedDict"],
     [name |-> "S", mutable |-> FALSE]}

\* Names given to add_subset: a free name and a name that may be a constant
SubsetNames == {"S", "B"}

\* Names given to add_subset that are attributes of the class
TakenNames == {"values", "choices", "add_choices"}

\* Constants given to extract_subset and add_subset ("Z" is never a constant)
ConstantLists ==
    {<<>>, <<"A">>, <<"B">>, <<"Z">>, <<"A", "B">>, <<"B", "A">>,
     <<"A", "A">>, <<"A", "Z">>}

(***************************************************************************)
(* The program: one collection under construction and use.                 *)
(***************************************************************************)
Init ==
    /\ coll = Null
    /\ extracted = Null
    /\ op = "none"
    /\ err = NoError
    /\ ret = Null

\* The largest batch given to C.add_choices: what is left of MaxEntries, and
\* at least one choice.
Room ==
    IF Len(coll.entries) >= MaxEntries THEN 1 ELSE MaxEntries - Len(coll.entries)

\* The call on C ended with outcome r
Returns(r) ==
    /\ coll' = r.self
    /\ err' = r.err
    /\ ret' = Null

\* C = Choices(*choices, **kwargs)
Construct(choices, kwargs) ==
    /\ coll = Null
    /\ Returns(Choices_init("Choices", choices, kwargs, <<"C">>))
    /\ op' = "construct"
    /\ extracted' = Null

\* C.add_choices(*choices, **kwargs)
AddChoices(choices, kwargs) ==
    /\ coll # Null
    /\ Returns(add_choices(coll, choices, kwargs))
    /\ op' = "add_choices"
    /\ extracted' = Null

\* C.add_subset(name, constants)
AddSubset(name, constants) ==
    /\ coll # Null
    /\ Returns(add_subset(coll, name, constants))
    /\ op' = "add_subset"
    /\ extracted' = Null

\* The value held by the caller after subset = C.extract_subset(...)
Held(r) == IF r.err = NoError THEN r.ret ELSE Null

\* subset = C.extract_subset(*constants)
ExtractSubset(constants) ==
    /\ coll # Null
    /\ Returns(extract_subset(coll, constants))
    /\ extracted' = Held(extract_subset(coll, constants))
    /\ op' = "extract_subset"

\* The call on the subset of C named `name` ended with outcome r
SubsetReturns(name, r) ==
    /\ coll' = [coll EXCEPT !.attrs = AttrSet(@, name, r.self)]
    /\ err' = r.err
    /\ ret' = Null

\* C.<name>.add_choices(*choices, **kwargs) on a recorded subset
SubsetAddChoices(name, choices, kwargs) ==
    /\ coll # Null
    /\ name \in Range(coll.subsets)
    /\ SubsetReturns(name, add_choices(getattr(coll, name), choices, kwargs))
    /\ op' = "subset.add_choices"
    /\ extracted' = Null

\* The call on the extracted subset ended with outcome r
ExtractedReturns(r) ==
    /\ extracted' = r.self
    /\ err' = r.err
    /\ ret' = Null

\* subset.add_choices(*choices, **kwargs) on the result of extract_subset,
\* which the caller holds until its next call on C
ExtractedAddChoices(choices, kwargs) ==
    /\ extracted # Null
    /\ ExtractedReturns(add_choices(extracted, choices, kwargs))
    /\ op' = "extracted.add_choices"
    /\ UNCHANGED coll

\* Names and constants given to add_subset called on a subset
NestedNames == {"T", "A"}

NestedLists == {<<"A">>}

\* C.<name>.add_subset(sub, constants) on a recorded subset, which its
\* _mutable flag does not forbid
SubsetAddSubset(name, sub, constants) ==
    /\ coll # Null
    /\ name \in Range(coll.subsets)
    /\ SubsetReturns(name, add_subset(getattr(coll, name), sub, constants))
    /\ op' = "subset.add_subset"
    /\ extracted' = Null

Next ==
    \/ /\ coll = Null
       /\ \E b \in Batches(MaxEntries), lead \in LeadNames, kw \in InitKws :
             Construct(WithLead(lead, b), kw)
    \/ /\ coll # Null
       /\ \E b \in Batches(Room), lead \in LeadNames, kw \in NameKws :
             AddChoices(WithLead(lead, b), kw)
    \/ \E name \in SubsetNames, cs \in ConstantLists : AddSubset(name, cs)
    \/ \E name \in TakenNames : AddSubset(name, <<"A">>)
    \/ \E cs \in ConstantLists : ExtractSubset(cs)
    \/ /\ coll # Null
       /\ \E name \in Range(coll.subsets), b \in FewBatches, lead \in LeadNames, kw \in NameKws :
             SubsetAddChoices(name, WithLead(lead, b), kw)
    \/ \E b \in FewBatches, lead \in LeadNames, kw \in NameKws :
          ExtractedAddChoices(WithLead(lead, b), kw)
    \/ \E name \in SubsetNames, sub \in NestedNames, cs \in NestedLists :
          SubsetAddSubset(name, sub, cs)

Spec == Init /\ [][Next]_vars

(***************************************************************************)
(* The lookups, the comparison and the form field, applied to collections  *)
(* built by a constructor call followed by at most one add_choices or      *)
(* add_subset call.                                                        *)
(***************************************************************************)
\* Largest length of the sequence a collection is compared with
MaxOther == 2

Constructed ==
    {Choices_init("Choices", WithLead(lead, b), kw, <<"C">>).self :
        b \in Batches(MaxEntries), lead \in LeadNames, kw \in InitKws} \ {Null}

QueryColls ==
    Constructed
    \cup {add_choices(c, b, NoKw).self :
             c \in {x \in Constructed : x._mutable}, b \in Batches(1)}
    \cup {add_subset(c, name, cs).self :
             c \in Constructed, name \in SubsetNames, cs \in ConstantLists}

\* Keys looked up in the three tables
LookupKeys == {"A", "B", "Z", "1", "2", "x", "y"}

\* Values submitted to the form field
Submitted ==
    {[t |-> "none"], [t |-> "int", v |-> "1"],
     Str("A"), Str("B"), Str("a"), Str("Z"), Str("S"), Str("values")}

\* Sequences a collection is compared with: lists and tuples of 2-tuples and
\* 3-tuples
OtherTuples ==
    {<<"A", "1", "x">>, <<"B", "2", "y">>, <<"B", "2", "x">>,
     <<"1", "x">>, <<"2", "y">>, <<"2", "x">>}

Others ==
    {[t |-> k, items |-> o] : k \in {"list", "tuple"}, o \in SeqsUpTo(OtherTuples, MaxOther)}

\* Keys given to C[key]: the positions of a list of up to MaxEntries + 1
\* pairs, from both ends and out of range, and names that are constants,
\* subsets, attributes of the class, or nothing
IndexKeys ==
    {[t |-> "int", v |-> i] : i \in -(MaxEntries + 2)..(MaxEntries + 2)}
    \cup {Str(k) : k \in {"A", "B", "Z", "S", "x", "1", "constants", "add_choices"}}

InitQuery ==
    /\ coll \in QueryColls
    /\ extracted = Null
    /\ op = "none"
    /\ err = NoError
    /\ ret = Null

\* A call that leaves the collection as it is: its argument and result.  As
\* the collection is unchanged, one such call per behaviour covers every
\* sequence of them.
Called(name, arg, e, val) ==
    /\ op = "none"
    /\ op' = name
    /\ err' = e
    /\ ret' = [arg |-> arg, val |-> val]
    /\ UNCHANGED <<coll, extracted>>

\* A call of outcome r
CalledWith(name, arg, r) == Called(name, arg, r.err, r.ret)

ForConstant(k) == CalledWith("for_constant", k, for_constant(coll, k))

ForValue(k) == CalledWith("for_value", k, for_value(coll, k))

ForDisplay(k) == CalledWith("for_display", k, for_display(coll, k))

HasConstant(k) == Called("has_constant", k, NoError, has_constant(coll, k))

HasValue(k) == Called("has_value", k, NoError, has_value(coll, k))

HasDisplay(k) == Called("has_display", k, NoError, has_display(coll, k))

\* k in C
Contains(k) == Called("contains", k, NoError, Choices_contains(coll, k))

\* C == other
Equals(other) == Called("eq", other, NoError, Choices_eq(coll, other))

\* NamedExtendedChoiceFormField(C).to_python(value)
ToPython(value) == CalledWith("to_python", value, to_python(coll, value))

\* C[key]
GetItem(key) == CalledWith("getitem", key, Choices_getitem(coll, key))

NextQuery ==
    \/ \E key \in IndexKeys : GetItem(key)
    \/ \E k \in LookupKeys : ForConstant(k)
    \/ \E k \in LookupKeys : ForValue(k)
    \/ \E k \in LookupKeys : ForDisplay(k)
    \/ \E k \in LookupKeys : HasConstant(k)
    \/ \E k \in LookupKeys : HasValue(k)
    \/ \E k \in LookupKeys : HasDisplay(k)
    \/ \E k \in LookupKeys : Contains(k)
    \/ \E other \in Others : Equals(other)
    \/ \E value \in Submitted : ToPython(value)

SpecQuery == InitQuery /\ [][NextQuery]_vars

(***************************************************************************)
(* Properties of the collection.                                           *)
(***************************************************************************)
\* The subsets recorded by collection c
SubsetsOf(c) == {getattr(c, c.subsets[i]) : i \in 1..Len(c.subsets)}

\* Every collection of the state: C, its subsets, the extracted subset
AllColls ==
    (IF coll = Null THEN {} ELSE {coll} \cup SubsetsOf(coll))
    \cup (IF extracted = Null THEN {} ELSE {extracted})

\* What a batch may add to: the positional sequence, the entries, the three
\* tables, the attributes and the subset list
Contents(c) ==
    IF c = Null THEN <<>>
    ELSE <<c.list, c.entries, c.constants, c.values, c.displays, c.attrs, c.subsets>>

RawConstant(e) == e.tuple[1]
RawValue(e) == e.tuple[2]
RawDisplay(e) == e.tuple[3]

\* C1: a constructor or add_choices call that raises leaves the positional
\* sequence, the entries, the tables, the attributes and the subset list as
\* they were before the call.
C1_BatchAtomic ==
    [][(op' \in {"construct", "add_choices"} /\ err' # NoError)
         => Contents(coll') = Contents(coll)]_vars

\* C2: no two entries of a collection share a constant or a value, and the
\* constants and values tables hold exactly one key per entry, mapped to it.
C2_UniqueConstantsValues ==
    \A c \in AllColls :
       /\ \A i, j \in 1..Len(c.entries) :
             i # j => /\ RawConstant(c.entries[i]) # RawConstant(c.entries[j])
                      /\ RawValue(c.entries[i]) # RawValue(c.entries[j])
       /\ Len(c.constants) = Len(c.entries)
       /\ Len(c.values) = Len(c.entries)
       /\ \A i \in 1..Len(c.entries) :
             /\ \E k \in 1..Len(c.constants) :
                   /\ c.constants[k][1].original_value = RawConstant(c.entries[i])
                   /\ c.constants[k][2] = c.entries[i]
             /\ \E k \in 1..Len(c.values) :
                   /\ c.values[k][1].original_value = RawValue(c.entries[i])
                   /\ c.values[k][2] = c.entries[i]

\* A rejected add_choices on a collection of two entries
C2_Witness ==
    /\ coll # Null
    /\ Len(coll.entries) = 2
    /\ op = "add_choices"
    /\ err \in {"ValueError:existing_constants", "ValueError:existing_values"}

\* C3 as stated: no two entries share a display, the displays table has one
\* key per entry, and for_display(e.display) returns e.
C3_DisplaysUnique ==
    \A c \in AllColls :
       /\ \A i, j \in 1..Len(c.entries) :
             i # j => RawDisplay(c.entries[i]) # RawDisplay(c.entries[j])
       /\ Len(c.displays) = Len(c.entries)
       /\ \A i \in 1..Len(c.entries) :
             for_display(c, RawDisplay(c.entries[i])).ret = c.entries[i]

\* The last entry of c whose display is d
LastWithDisplay(c, d) ==
    c.entries[CHOOSE i \in 1..Len(c.entries) :
                 /\ RawDisplay(c.entries[i]) = d
                 /\ \A j \in (i + 1)..Len(c.entries) : RawDisplay(c.entries[j]) # d]

\* C3 amended: the displays table has one key per distinct display of the
\* entries, and for_display(e.display) returns the last entry of the
\* collection whose display is e.display.
C3_DisplaysLast ==
    \A c \in AllColls :
       /\ Len(c.displays) = Cardinality({RawDisplay(c.entries[i]) : i \in 1..Len(c.entries)})
       /\ \A i \in 1..Len(c.entries) :
             LET r == for_display(c, RawDisplay(c.entries[i]))
             IN  /\ r.err = NoError
                 /\ r.ret = LastWithDisplay(c, RawDisplay(c.entries[i]))

\* Two entries of C share a display
C3_Witness ==
    /\ coll # Null
    /\ Len(coll.entries) = 2
    /\ RawDisplay(coll.entries[1]) = RawDisplay(coll.entries[2])

LastAskedWithDisplay(c, cs, d) ==
    for_constant(c, cs[CHOOSE i \in 1..Len(cs) :
                          /\ RawDisplay(for_constant(c, cs[i]).ret) = d
                          /\ \A j \in (i + 1)..Len(cs) :
                                RawDisplay(for_constant(c, cs[j]).ret) # d]).ret

\* The subset returned for constants cs is a new collection of exactly the
\* entries of C asked for, in the order asked, found as the same objects in
\* its constants and values tables, and C is unchanged.
ExtractedAsAsked(cs) ==
    /\ err' = NoError
    /\ extracted' # Null
    /\ extracted'.owner # coll.owner
    /\ Len(extracted'.entries) = Len(cs)
    /\ \A i \in 1..Len(cs) :
          LET e == for_constant(coll, cs[i]).ret
          IN  /\ extracted'.entries[i] = e
              /\ for_constant(extracted', cs[i]).ret = e
              /\ for_value(extracted', RawValue(e)).ret = e
    /\ coll' = coll

\* C5 as stated: extract_subset on existing constants returns the entries
\* asked for in the order asked, each found as the same object in the
\* subset's constants, values and displays tables; C is unchanged.
C5_ExtractSubset ==
    [][op' = "extract_subset" => \A cs \in ConstantLists :
          (ExtractSubset(cs) /\ \A i \in 1..Len(cs) : has_constant(coll, cs[i]))
          => /\ ExtractedAsAsked(cs)
             /\ \A i \in 1..Len(cs) :
                   LET e == for_constant(coll, cs[i]).ret
                   IN  for_display(extracted', RawDisplay(e)).ret = e]_vars

\* C5 amended: the same for pairwise distinct existing constants, the
\* displays table giving, for the display of each entry, the last entry asked
\* for that has this display.
C5_ExtractSubsetDistinct ==
    [][op' = "extract_subset" => \A cs \in ConstantLists :
          (/\ ExtractSubset(cs)
           /\ \A i \in 1..Len(cs) : has_constant(coll, cs[i])
           /\ \A i, j \in 1..Len(cs) : i # j => cs[i] # cs[j])
          => /\ ExtractedAsAsked(cs)
             /\ \A i \in 1..Len(cs) :
                   LET e == for_constant(coll, cs[i]).ret
                   IN  for_display(extracted', RawDisplay(e)).ret
                          = LastAskedWithDisplay(coll, cs, RawDisplay(e))]_vars

\* A subset of two entries extracted in the reverse order of C
C5_Witness ==
    /\ op = "extract_subset"
    /\ err = NoError
    /\ extracted # Null
    /\ Len(extracted.entries) = 2
    /\ Len(coll.entries) = 2
    /\ extracted.entries[1] = coll.entries[2]
    /\ extracted.entries[2] = coll.entries[1]

\* C6: add_choices on a subset, recorded or extracted, raises the
\* immutability error whatever its arguments and leaves the subset unchanged.
C6_SubsetsImmutable ==
    [][/\ op' = "subset.add_choices"
          => (err' = "RuntimeError:immutable" /\ coll' = coll)
       /\ op' = "extracted.add_choices"
          => (err' = "RuntimeError:immutable" /\ extracted' = extracted /\ coll' = coll)]_vars

\* add_choices was refused by a subset that add_choices created by name
C6_Witness ==
    /\ op = "subset.add_choices"
    /\ err = "RuntimeError:immutable"
    /\ "S" \in Range(coll.subsets)
    /\ Len(getattr(coll, "S").entries) > 0

\* The (constant, value, display, attributes) of the entries of c
Declared(c) ==
    [i \in 1..Len(c.entries) |-> <<c.entries[i].tuple, c.entries[i].attributes>>]

\* create_choice applied to the arguments a given by __reduce__
Restore(a) == create_choice(a.klass, a.choices, a.subsets, a.kwargs, <<"R">>)

\* Collection s1 equals s2 and declares the same entries and attributes
SameAs(s1, s2) ==
    /\ Choices_eq(s1, s2)
    /\ Declared(s1) = Declared(s2)
    /\ s1.cls = s2.cls
    /\ s1.dict_class = s2.dict_class
    /\ s1._mutable = s2._mutable
    /\ s1.subsets = s2.subsets

\* The outcome r of a restoration is a collection like c
RestoredAs(r, c) ==
    /\ r.err = NoError
    /\ SameAs(r.self, c)
    /\ \A i \in 1..Len(c.subsets) :
          SameAs(getattr(r.self, c.subsets[i]), getattr(c, c.subsets[i]))

\* C was built by calls on C alone: no subset of C was given a subset
OwnCallsOnly(c) ==
    \A i \in 1..Len(c.subsets) : getattr(c, c.subsets[i]).subsets = <<>>

ConstantsOf(c) == {RawConstant(c.entries[i]) : i \in 1..Len(c.entries)}

\* The entry of c of constant k
EntryOf(c, k) == c.entries[CHOOSE i \in 1..Len(c.entries) : RawConstant(c.entries[i]) = k]

\* C8: to_python returns None for None, fails with 'invalid-choice-type'
\* for a non-string, returns the stored value of the constant for a string
\* that names a constant, and fails with 'non-existing-choice' for every
\* other string.
C8_ToPython ==
    op = "to_python" =>
       LET value == ret.arg
       IN  IF value.t = "none" THEN err = NoError /\ ret.val = [t |-> "none"]
           ELSE IF value.t # "str" THEN err = "ValidationError:invalid-choice-type"
           ELSE IF value.s \in ConstantsOf(coll)
           THEN err = NoError /\ ret.val = EntryOf(coll, value.s).value
           ELSE err = "ValidationError:non-existing-choice"

\* The (constant, value, display) of the entries of c, and its pairs
Triples(c) == [i \in 1..Len(c.entries) |-> c.entries[i].tuple]
Pairs(c) == [i \in 1..Len(c.entries) |-> <<RawValue(c.entries[i]), RawDisplay(c.entries[i])>>]

\* C9: C equals a sequence of 3-tuples iff the sequence is its entries, and
\* a sequence of 2-tuples iff the sequence is its (value, display) pairs;
\* the length of the first element of the sequence decides which applies.
C9_Equality ==
    op = "eq" =>
       LET o == ret.arg.items
       IN  /\ (\A i \in 1..Len(o) : Len(o[i]) = 3) => (ret.val <=> o = Triples(coll))
           /\ (\A i \in 1..Len(o) : Len(o[i]) = 2) => (ret.val <=> o = Pairs(coll))
           /\ (o # <<>> /\ Len(o[1]) = 3) => (ret.val <=> o = Triples(coll))
           /\ (o # <<>> /\ Len(o[1]) = 2) => (ret.val <=> o = Pairs(coll))

\* C was found equal to a tuple of two 3-tuples
C9_Witness ==
    /\ op = "eq"
    /\ ret.val
    /\ ret.arg.t = "tuple"
    /\ Len(ret.arg.items) = 2
    /\ Len(ret.arg.items[1]) = 3

\* C10: has_constant, has_value and has_display of k are true iff
\* for_constant, for_value and for_display of k return an entry, and k in C
\* is has_value(k).
C10_HasIffFor ==
    /\ op = "has_constant" => (ret.val <=> for_constant(coll, ret.arg).err = NoError)
    /\ op = "has_value" => (ret.val <=> for_value(coll, ret.arg).err = NoError)
    /\ op = "has_display" => (ret.val <=> for_display(coll, ret.arg).err = NoError)
    /\ op = "for_constant" => (err = NoError <=> has_constant(coll, ret.arg))
    /\ op = "for_value" => (err = NoError <=> has_value(coll, ret.arg))
    /\ op = "for_display" => (err = NoError <=> has_display(coll, ret.arg))
    /\ op \in {"for_constant", "for_value", "for_display"}
          => err \in {NoError, "KeyError"} /\ (err = NoError <=> ret.val # Null)
    /\ op = "contains" => (ret.val <=> has_value(coll, ret.arg))

\* has_value answered true for a value of a collection of two entries
C10_Witness ==
    /\ op = "has_value"
    /\ ret.val
    /\ Len(coll.entries) = 2

\* The entries of c whose constant is named s
Named(c, s) == {i \in 1..Len(c.entries) : RawConstant(c.entries[i]) = s}

\* C22: C[i] for an integer i is the (value, display) pair at position i of
\* the list, counted from 0, or from the end when i is negative, and raises
\* IndexError out of range; C[s] for a string s that names a constant is the
\* stored value of that constant, the same object as the attribute s; C[s]
\* is the attribute s for every attribute, and raises KeyError for every
\* string that is no attribute of C.
C22_Indexing ==
    op = "getitem" =>
       /\ ret.arg.t = "int" =>
             /\ \A n \in 1..Len(coll.entries) :
                   (ret.arg.v = n - 1 \/ ret.arg.v = n - 1 - Len(coll.entries))
                   => /\ err = NoError
                      /\ ret.val = <<coll.entries[n].value, coll.entries[n].display>>
                      /\ ret.val = coll.list[n]
             /\ (ret.arg.v >= Len(coll.entries) \/ ret.arg.v < -Len(coll.entries))
                   => err = "IndexError" /\ ret.val = Null
       /\ ret.arg.t = "str" =>
             /\ \A n \in Named(coll, ret.arg.s) :
                   /\ err = NoError
                   /\ ret.val = coll.entries[n].value
                   /\ ret.val = getattr(coll, ret.arg.s)
             /\ ret.arg.s \in ClassAttrs \cup Range(coll.subsets)
                   => err = NoError /\ ret.val = getattr(coll, ret.arg.s)
             /\ ret.arg.s \notin ClassAttrs \cup Range(coll.subsets) \cup ConstantsOf(coll)
                   => err = "KeyError" /\ ret.val = Null

\* C[-1] returned the second pair of a collection of two entries
C22_Witness ==
    /\ op = "getitem"
    /\ err = NoError
    /\ ret.arg = [t |-> "int", v |-> -1]
    /\ Len(coll.entries) = 2
    /\ ret.val = coll.list[2]

(***************************************************************************)
(* Properties of the attribute namespace and of named batches.             *)
(***************************************************************************)
\* The recorded subset names of c are pairwise distinct, none is a constant,
\* and each is an attribute holding an immutable collection of constants of c
SubsetNamesApart(c) ==
    /\ \A i, j \in 1..Len(c.subsets) : i # j => c.subsets[i] # c.subsets[j]
    /\ Range(c.subsets) \cap ConstantsOf(c) = {}
    /\ \A name \in Range(c.subsets) :
          /\ name \in AttrNames(c.attrs)
          /\ getattr(c, name).t = "choices"
          /\ ~getattr(c, name)._mutable
          /\ ConstantsOf(getattr(c, name)) \subseteq ConstantsOf(c)

\* add_subset under a name that is an attribute fails and changes nothing
TakenNameRefused ==
    op' = "add_subset" =>
       \A name \in SubsetNames \cup TakenNames, cs \in ConstantLists :
          (AddSubset(name, cs) /\ hasattr(coll, name))
          => (err' = "ValueError:subset_name_is_attribute" /\ coll' = coll)

\* No constant added by the constructor or add_choices was an attribute
NoConstantOverAttribute ==
    (op' \in {"construct", "add_choices"} /\ coll' # Null) =>
       \A k \in ConstantsOf(coll') :
          /\ coll = Null => k \notin ClassAttrs
          /\ (coll # Null /\ k \notin ConstantsOf(coll)) => ~hasattr(coll, k)

\* C11: constants and subset names share one namespace: add_subset under a
\* name that is already an attribute fails and leaves the parent unchanged,
\* add_choices never adds a constant that is already an attribute, and in
\* every state the subset names are distinct, apart from the constants, and
\* each names an immutable collection of constants of the parent.
C11_OneNamespace ==
    /\ [](coll # Null => SubsetNamesApart(coll))
    /\ [][TakenNameRefused /\ NoConstantOverAttribute]_vars

\* add_choices refused a constant that is the name of a recorded subset
C11_Witness ==
    /\ op = "add_choices"
    /\ err = "ValueError:existing_attributes"
    /\ "B" \in Range(coll.subsets)

\* The name of a call that gives a subset name exactly once, None otherwise
GivenName(lead, kw) ==
    IF Truthy(lead) /\ ~Truthy(KwGet(kw, "name", None)) THEN lead
    ELSE IF ~Truthy(lead) /\ Truthy(KwGet(kw, "name", None)) THEN kw.name
    ELSE None

\* A successful call of outcome r, given the batch and the subset name `name`
\* on a collection of entries `before` and subset names `names`, records one
\* more subset, under name, made of the entries added by the call in the
\* order of the batch.
NamedBatchRecorded(before, names, r, name, batch) ==
    r.err = NoError =>
       /\ r.self.subsets = Append(names, name)
       /\ Len(r.self.entries) = Len(before) + Len(batch)
       /\ SubSeq(r.self.entries, 1, Len(before)) = before
       /\ hasattr(r.self, name)
       /\ getattr(r.self, name).entries
             = SubSeq(r.self.entries, Len(before) + 1, Len(r.self.entries))
       /\ [i \in 1..Len(batch) |-> RawConstant(getattr(r.self, name).entries[i])]
             = [i \in 1..Len(batch) |-> Item(batch[i], 1)]
       /\ Range(getattr(r.self, name).entries) \cap Range(before) = {}

\* C12: a constructor or add_choices call that succeeds with a subset name,
\* given as leading string or as name option, records under that name a
\* subset whose entries are exactly the entries the call added, in the order
\* of the batch, and none of the entries the collection had before.
C12_NamedBatch ==
    /\ coll = Null =>
          \A b \in Batches(MaxEntries), lead \in LeadNames, kw \in InitKws :
             Truthy(GivenName(lead, kw)) =>
                NamedBatchRecorded(<<>>, <<>>,
                    Choices_init("Choices", WithLead(lead, b), kw, <<"C">>),
                    GivenName(lead, kw), b)
    /\ coll # Null =>
          \A b \in Batches(Room), lead \in LeadNames, kw \in NameKws :
             Truthy(GivenName(lead, kw)) =>
                NamedBatchRecorded(coll.entries, coll.subsets,
                    add_choices(coll, WithLead(lead, b), kw),
                    GivenName(lead, kw), b)

\* add_choices recorded subset S of the one entry it added to a collection
\* that had an entry before
C12_Witness ==
    /\ op = "add_choices"
    /\ err = NoError
    /\ Len(coll.entries) = 2
    /\ "S" \in Range(coll.subsets)
    /\ getattr(coll, "S").entries = <<coll.entries[2]>>

\* C13: add_choices given a subset name both as leading argument and as
\* name option raises before any entry is validated or added, whatever the
\* batch: the name error on a mutable collection, the immutability error on
\* an immutable one, and the collection is unchanged.
C13_NameTwice ==
    \A c \in AllColls : \A b \in Batches(MaxEntries) :
       add_choices(c, WithLead("S", b), [name |-> "S"])
          = Outcome(c, IF c._mutable THEN "ValueError:name_twice"
                       ELSE "RuntimeError:immutable", Null)

\* add_choices refused a name given twice on a collection that has an entry
C13_Witness ==
    /\ op = "add_choices"
    /\ err = "ValueError:name_twice"
    /\ Len(coll.entries) >= 1

\* extract_subset of constants of which one is missing fails with the error
\* that lists the missing constants, returns no subset and changes nothing
ExtractMissingRefused ==
    op' = "extract_subset" =>
       \A cs \in ConstantLists :
          (ExtractSubset(cs) /\ Range(cs) \ ConstantsOf(coll) # {})
          => /\ err' = "ValueError:missing_constants"
             /\ bad_constants(coll, cs) = Range(cs) \ ConstantsOf(coll)
             /\ extracted' = Null
             /\ coll' = coll

\* C14 as stated: extract_subset and add_subset given a constant that is not
\* a constant of the collection fail with the error that lists the missing
\* constants; no subset is created, no attribute is set and the subset list
\* is unchanged.
C14_MissingConstants ==
    [][/\ ExtractMissingRefused
       /\ op' = "add_subset" =>
             \A name \in SubsetNames \cup TakenNames, cs \in ConstantLists :
                (AddSubset(name, cs) /\ Range(cs) \ ConstantsOf(coll) # {})
                => /\ err' = "ValueError:missing_constants"
                   /\ coll' = coll]_vars

\* C14 amended: the same, add_subset failing with that error when its name
\* is not yet an attribute of the collection, and with the error of the
\* taken name when it is.
C14_MissingConstantsFreeName ==
    [][/\ ExtractMissingRefused
       /\ op' = "add_subset" =>
             \A name \in SubsetNames \cup TakenNames, cs \in ConstantLists :
                (AddSubset(name, cs) /\ Range(cs) \ ConstantsOf(coll) # {})
                => /\ err' = IF hasattr(coll, name)
                             THEN "ValueError:subset_name_is_attribute"
                             ELSE "ValueError:missing_constants"
                   /\ bad_constants(coll, cs) = Range(cs) \ ConstantsOf(coll)
                   /\ coll' = coll]_vars

\* add_subset was refused for a missing constant by a collection of two
\* entries
C14_Witness ==
    /\ op = "add_subset"
    /\ err = "ValueError:missing_constants"
    /\ Len(coll.entries) = 2

(***************************************************************************)
(* Properties of the order of the checks of a batch.                       *)
(***************************************************************************)
\* The value of a tuple of the batch, "missing" for a tuple of one element
ValueOf(t) == IF ItemLen(t) >= 2 THEN Item(t, 2) ELSE "missing"

\* (1) two tuples of the batch share a constant
Rule1(b) == \E i, j \in 1..Len(b) : i # j /\ Item(b[i], 1) = Item(b[j], 1)

\* (2) a constant of the batch is a constant of c
Rule2(c, b) == \E i \in 1..Len(b) : Item(b[i], 1) \in ConstantsOf(c)

\* (3) a constant of the batch is the name of an attribute of c
Rule3(c, b) ==
    \E i \in 1..Len(b) : Item(b[i], 1) \in ClassAttrs \cup AttrNames(c.attrs)

\* (4) two tuples of the batch share a value
Rule4(b) ==
    \E i, j \in 1..Len(b) :
       i # j /\ ItemLen(b[i]) >= 2 /\ ItemLen(b[j]) >= 2 /\ Item(b[i], 2) = Item(b[j], 2)

\* (5) a value of the batch is unhashable or is a value of c
Rule5(c, b) ==
    \E i \in 1..Len(b) :
       \/ ValueOf(b[i]) = Unhashable
       \/ ValueOf(b[i]) \in {RawValue(c.entries[k]) : k \in 1..Len(c.entries)}

\* The errors of the construction of an entry
EntryErrors ==
    {"AssertionError:arity", "AssertionError:attributes_type",
     "AssertionError:reserved_key", "ValueError:none"}

\* The outcome of the checks (4), (5) and of the construction of the entries
ErrorFromValues(c, b, e) ==
    IF Rule4(b) THEN e = "ValueError:duplicate_values"
    ELSE IF Rule5(c, b)
    THEN e \in {"ValueError:unhashable_value", "ValueError:existing_values"}
    ELSE e \in EntryErrors \cup {NoError}

\* Error e is the one add_choices(b) raises on c according to the order
\* immutability, (1), (2), (3), (4), (5), construction of the entries
ErrorInOrder(c, b, e) ==
    IF ~c._mutable THEN e = "RuntimeError:immutable"
    ELSE IF Rule1(b) THEN e = "ValueError:duplicate_constants"
    ELSE IF Rule2(c, b) THEN e = "ValueError:existing_constants"
    ELSE IF Rule3(c, b) THEN e = "ValueError:existing_attributes"
    ELSE ErrorFromValues(c, b, e)

\* The same order, with the errors raised while the constants and the values
\* are read: TypeError in place of (3) for a constant that is None,
\* IndexError before (4) for a tuple of one element
ErrorInOrderAsRead(c, b, e) ==
    IF ~c._mutable THEN e = "RuntimeError:immutable"
    ELSE IF Rule1(b) THEN e = "ValueError:duplicate_constants"
    ELSE IF Rule2(c, b) THEN e = "ValueError:existing_constants"
    ELSE IF \E i \in 1..Len(b) : Item(b[i], 1) = None
    THEN e = "TypeError:attribute_name"
    ELSE IF Rule3(c, b) THEN e = "ValueError:existing_attributes"
    ELSE IF \E i \in 1..Len(b) : ItemLen(b[i]) < 2 THEN e = "IndexError"
    ELSE ErrorFromValues(c, b, e)

MaxArity == 5

\* Largest number of accessors followed from the entry
MaxChain == 2

\* Objects given as values of attributes: the identity of some other object,
\* a Python object that is no pair, an object that is no mapping
OtherObject == [owner |-> <<"other">>, n |-> 0]
NoPair == <<[t |-> "raw", v |-> "c"]>>

\* The 4th elements given: None, mappings without and with reserved keys,
\* mappings whose key is the name of a field the constructors set, and a
\* non-mapping
EntryAttrs ==
    {NoneAttrs,
     MapAttrs(<<>>),
     MapAttrs(<< <<"k", "v">> >>),
     MapAttrs(<< <<"k", "v">>, <<"j", "w">> >>),
     MapAttrs(<< <<"constant", "v">> >>),
     MapAttrs(<< <<"value", "v">> >>),
     MapAttrs(<< <<"display", "v">> >>),
     MapAttrs(<< <<"k", "v">>, <<"display", "w">> >>),
     MapAttrs(<< <<"choice", NoPair>> >>),
     MapAttrs(<< <<"attributes", OtherAttrs>> >>),
     MapAttrs(<< <<"choice_entry", OtherObject>> >>),
     MapAttrs(<< <<"original_value", "1">> >>),
     MapAttrs(<< <<"creator_type", OtherObject>> >>),
     OtherAttrs}

\* The tuple of length n that starts as full does
OfLength(full, n) ==
    IF n <= 4 THEN SubSeq(full, 1, n) ELSE full \o [i \in 1..(n - 4) |-> "pad"]

\* The tuples given to ChoiceEntry: constants, values and displays that are
\* truthy, falsy (0, the empty string) or None
EntryTuples ==
    {OfLength(<<c, v, d, a>>, n) :
        c \in {"A", None}, v \in {"1", "0", "", None}, d \in {"x", "", None},
        a \in EntryAttrs, n \in 0..MaxArity}

\* The identity of the entry built
EntryId == [owner |-> <<"E">>, n |-> 1]

InitEntry ==
    /\ coll = Null
    /\ extracted = Null
    /\ op = "none"
    /\ err = NoError
    /\ \E tuple_ \in EntryTuples :
          ret = [arg |-> tuple_, val |-> Null, chain |-> <<>>, truth |-> <<>>]

\* The constructor ended with outcome r
EntryReturns(r) ==
    /\ err' = r.err
    /\ ret' = [ret EXCEPT !.val = r.entry]

\* entry = ChoiceEntry(tuple_)
NewEntry ==
    /\ op = "none"
    /\ EntryReturns(ChoiceEntry_new(ret.arg, EntryId))
    /\ op' = "ChoiceEntry"
    /\ UNCHANGED <<coll, extracted>>

\* The accessor `name` ended with outcome r
Followed(name, r) ==
    /\ err' = r.err
    /\ extracted' = r.ret
    /\ ret' = [ret EXCEPT !.chain = Append(@, name)]

\* current = current.<name>, current being the entry at first and a typed
\* attribute afterwards
Follow(name) ==
    /\ op \in {"ChoiceEntry", "follow"}
    /\ err = NoError
    /\ Len(ret.chain) < MaxChain
    /\ Followed(name, IF ret.chain = <<>>
                      THEN Entry_getattr(ret.val, name)
                      ELSE ChoiceAttribute_property(extracted, name, {ret.val}))
    /\ op' = "follow"
    /\ UNCHANGED coll

\* bool(current) of the typed attribute reached
Bool ==
    /\ op = "follow"
    /\ err = NoError
    /\ op' = "bool"
    /\ ret' = [ret EXCEPT !.truth = <<ChoiceAttribute_bool(extracted)>>]
    /\ UNCHANGED <<coll, extracted, err>>

\* The identity of the entry that pickle.loads builds
LoadedId == [owner |-> <<"E">>, n |-> 2]

\* pickle.loads ended with outcome r for an entry
EntryLoaded(r) ==
    /\ err' = r.err
    /\ extracted' = r.entry
    /\ coll' = r.entry

\* loaded = pickle.loads(pickle.dumps(entry))
LoadsEntry ==
    /\ op = "ChoiceEntry"
    /\ err = NoError
    /\ EntryLoaded(ChoiceEntry_new(ChoiceEntry_reduce(ret.val), LoadedId))
    /\ op' = "loads_entry"
    /\ UNCHANGED ret

\* pickle.loads ended with outcome r for a typed attribute; coll is the
\* entry loaded with it
AttributeLoaded(r) ==
    /\ err' = r.err
    /\ extracted' = r.ret
    /\ coll' = r.entry

\* loaded = pickle.loads(pickle.dumps(current)) of the typed attribute
\* reached
LoadsAttribute ==
    /\ op = "follow"
    /\ err = NoError
    /\ AttributeLoaded(LoadedFrom(ChoiceAttribute_reduce(extracted), {ret.val}, LoadedId))
    /\ op' = "loads_attribute"
    /\ UNCHANGED ret

NextEntry ==
    \/ NewEntry
    \/ \E name \in ReservedKeys : Follow(name)
    \/ Bool
    \/ LoadsEntry
    \/ LoadsAttribute

SpecEntry == InitEntry /\ [][NextEntry]_vars

\* The errors of a malformed tuple
Malformed ==
    {"AssertionError:arity", "AssertionError:attributes_type",
     "AssertionError:reserved_key"}

\* C16: the construction of a ChoiceEntry fails with a malformed-input error
\* for a tuple whose length is not 3 or 4, for a 4th element that is neither
\* None nor a mapping and for a mapping that holds the key constant, value
\* or display; it fails for a tuple whose value is None, with the dedicated
\* error when the tuple is not malformed.
C16_EntryRefused ==
    op = "ChoiceEntry" =>
       LET tuple_ == ret.arg
       IN  /\ Len(tuple_) \notin {3, 4} => err \in Malformed
           /\ (Len(tuple_) = 4 /\ tuple_[4].kind = "other") => err \in Malformed
           /\ (Len(tuple_) = 4 /\ tuple_[4].kind = "map"
                 /\ AttrNames(tuple_[4].items) \cap {"constant", "value", "display"} # {})
              => err \in Malformed
           /\ (Len(tuple_) >= 2 /\ tuple_[2] = None)
              => /\ err # NoError
                 /\ err \notin Malformed => err = "ValueError:none"
                 /\ (Len(tuple_) = 3
                       \/ (Len(tuple_) = 4 /\ tuple_[4].kind = "none")
                       \/ (Len(tuple_) = 4 /\ tuple_[4].kind = "map"
                             /\ AttrNames(tuple_[4].items)
                                   \cap {"constant", "value", "display"} = {}))
                    => err = "ValueError:none"
           /\ err # NoError => ret.val = Null

\* A tuple of four elements with a mapping was refused for its None value
C16_Witness ==
    /\ op = "ChoiceEntry"
    /\ err = "ValueError:none"
    /\ Len(ret.arg) = 4
    /\ ret.arg[2] = None
    /\ ret.arg[4].kind = "map"

\* The 4th element of a tuple, None for a tuple of three
GivenAttrs(tuple_) == IF Len(tuple_) = 4 THEN tuple_[4] ELSE NoneAttrs

\* C17: an entry built from an accepted tuple equals the plain tuple of its
\* constant, value and display whatever its attributes, its choice is the
\* pair of its value and display, and every key of its attributes is
\* readable on it while its constant, value, display, choice and stored
\* attributes are what the tuple gave.
C17_EntryAsTuple ==
    (op = "ChoiceEntry" /\ err = NoError) =>
       LET entry == ret.val
           tuple_ == ret.arg
       IN  /\ entry.tuple = SubSeq(tuple_, 1, 3)
           /\ entry.constant.base = tuple_[1]
           /\ entry.value.base = tuple_[2]
           /\ entry.display.base = tuple_[3]
           /\ entry.choice = <<entry.value, entry.display>>
           /\ entry.attributes = GivenAttrs(tuple_)
           /\ \A i \in 1..Len(AttrItems(GivenAttrs(tuple_))) :
                 Entry_getattr(entry, AttrItems(GivenAttrs(tuple_))[i][1])
                    = [err |-> NoError, ret |-> AttrItems(GivenAttrs(tuple_))[i][2]]

\* The three typed attributes of an entry
Wrappers(entry) == {entry.constant, entry.value, entry.display}

\* C18: each typed attribute w of an entry e refers to e, w.constant,
\* w.value and w.display are those of e, so that a chain of these accessors
\* ends at the typed attribute of e named by the last accessor, and every
\* key of the attributes of e is readable on w with the value e has for it.
C18_WrapperDelegates ==
    /\ (op = "ChoiceEntry" /\ err = NoError) =>
          \A w \in Wrappers(ret.val) :
             /\ w.choice_entry = ret.val.id
             /\ \A name \in {"constant", "value", "display"} :
                   ChoiceAttribute_property(w, name, {ret.val})
                      = [err |-> NoError, ret |-> ret.val[name]]
             /\ \A i \in 1..Len(AttrItems(GivenAttrs(ret.arg))) :
                   ChoiceAttribute_getattr(w, AttrItems(GivenAttrs(ret.arg))[i][1])
                      = Entry_getattr(ret.val, AttrItems(GivenAttrs(ret.arg))[i][1])
    /\ op = "follow" =>
          /\ err = NoError
          /\ extracted = ret.val[ret.chain[Len(ret.chain)]]

\* The position in the tuple of the raw value of the typed attribute that
\* the accessor `name` gives
Position(name) == IF name = "constant" THEN 1 ELSE IF name = "value" THEN 2 ELSE 3

\* C19: the truthiness of a typed attribute is the truthiness of the raw
\* value it was built from, and the attribute equals that raw value: it is
\* falsy and equal to the raw value for 0 and for the empty string.
C19_Truthiness ==
    op = "bool" =>
       /\ ret.truth = <<bool(ret.arg[Position(ret.chain[Len(ret.chain)])])>>
       /\ extracted.base = ret.arg[Position(ret.chain[Len(ret.chain)])]

(***************************************************************************)
(* The collections that generate values and displays: one collection built *)
(* by a constructor of AutoDisplayChoices, AutoChoices or a subclass, then *)
(* extended.  ret keeps the class and the options given to the             *)
(* constructor.                                                            *)
(***************************************************************************)
\* Largest number of choices given to a constructor of these classes
MaxAuto == 2

AutoMapping == MapAttrs(<< <<"k", "v">> >>)

\* An entry built beforehand and given in place of a tuple
GivenEntry ==
    ChoiceEntry_new(<<"C_D", "w", "e", AutoMapping>>,
                    [owner |-> <<"given">>, n |-> 1]).entry

\* The elements given: bare strings, tuples of one to four elements with
\* and without a trailing mapping, with a None value or a None 4th element,
\* an entry, and tuples that the assertions refuse
AutoElements ==
    {Str("AB"),
     Tup(<<Raw("AB")>>),
     Tup(<<Raw("AB"), Raw("v")>>),
     Tup(<<Raw("AB"), AutoMapping>>),
     Tup(<<Raw("AB"), NoneAttrs>>),
     Tup(<<Raw("AB"), Raw("v"), Raw("d")>>),
     Tup(<<Raw("AB"), Raw("v"), AutoMapping>>),
     Tup(<<Raw("AB"), NoneAttrs, Raw("d")>>),
     Tup(<<Raw("AB"), Raw("v"), Raw("d"), AutoMapping>>),
     Tup(<<Raw("AB"), NoneAttrs, Raw("d"), AutoMapping>>),
     Tup(<<Raw("AB"), Raw("v"), Raw("d"), NoneAttrs>>),
     Tup(<<Raw("AB"), Raw("v"), Raw("d"), Raw("e")>>),
     Tup(<<Raw("AB"), Raw("v"), Raw("d"), AutoMapping, AutoMapping>>),
     Str("C_D"),
     Tup(<<Raw("C_D"), Raw("w")>>),
     GivenEntry}

AutoClasses == {"AutoChoices", "AutoDisplayChoices", "MyAutoChoices"}

\* The options given to the constructor
AutoKws ==
    {NoKw,
     [display_transform |-> "lower", value_transform |-> "reverse"],
     [display_transform |-> "title"],
     [name |-> "S"]}

\* The constructor ended with outcome r
AutoReturns(r, cls, kwargs) ==
    /\ coll' = r.self
    /\ err' = r.err
    /\ ret' = [cls |-> cls, kwargs |-> kwargs]

\* C = cls(*choices, **kwargs), the first statement of the program
AutoConstruct(cls, choices, kwargs) ==
    /\ op = "none"
    /\ AutoReturns(Choices_init(cls, choices, kwargs, <<"C">>), cls, kwargs)
    /\ op' = "construct"
    /\ UNCHANGED extracted

\* add_choices ended with outcome r
AutoAdded(r) ==
    /\ coll' = r.self
    /\ err' = r.err

\* C.add_choices(choice)
AutoAddChoices(choice) ==
    /\ coll # Null
    /\ Len(coll.entries) < MaxAuto
    /\ AutoAdded(Call_add_choices(coll, <<choice>>, NoKw))
    /\ op' = "add_choices"
    /\ UNCHANGED <<extracted, ret>>

NextAuto ==
    \/ \E cls \in AutoClasses, b \in SeqsUpTo(AutoElements, MaxAuto), kw \in AutoKws :
          AutoConstruct(cls, b, kw)
    \/ \E x \in AutoElements : AutoAddChoices(x)

SpecAuto == Init /\ [][NextAuto]_vars

\* The value that const.lower() gives and the display that
\* const.lower().replace('_', ' ').capitalize() gives, as the tests state
\* them, and those of the functions given in the options
Generated(function, const) ==
    IF const = "AB"
    THEN (IF function = "lower" THEN "ab" ELSE IF function = "reverse" THEN "BA" ELSE "Ab")
    ELSE (IF function = "lower" THEN "c_d" ELSE IF function = "reverse" THEN "D_C"
          ELSE IF function = "title" THEN "C_D" ELSE "C d")

\* The function that generates `which` for a collection of class cls built
\* with options kwargs: the one of the options, else the one of the class
Generator(cls, kwargs, which) ==
    IF which \in DOMAIN kwargs THEN kwargs[which]
    ELSE IF cls = "MyAutoChoices"
    THEN (IF which = "display_transform" THEN "lower" ELSE "reverse")
    ELSE (IF which = "display_transform" THEN "capitalize" ELSE "lower")

\* The elements of a shorthand, a bare string being its own constant
Given(x) == IF x.t = "str" THEN <<Raw(x.s)>> ELSE x.items

\* The elements of a shorthand that come before its attributes
Positional(x) ==
    IF Len(Given(x)) = 4 \/ Given(x)[Len(Given(x))].kind = "map"
    THEN SubSeq(Given(x), 1, Len(Given(x)) - 1)
    ELSE Given(x)

\* The (constant, value, display) and the attributes that a shorthand
\* stands for: a trailing mapping is the attributes, a value or a display
\* given is kept, a value that is missing or None and a display that is
\* missing are generated from the constant
Normalised(cls, kwargs, x) ==
    IF x.t = "entry" THEN <<x.tuple, x.attributes>>
    ELSE << <<Positional(x)[1].v,
              IF Len(Positional(x)) >= 2 /\ Positional(x)[2].kind = "raw"
              THEN Positional(x)[2].v
              ELSE Generated(Generator(cls, kwargs, "value_transform"), Positional(x)[1].v),
              IF Len(Positional(x)) >= 3
              THEN Positional(x)[3].v
              ELSE Generated(Generator(cls, kwargs, "display_transform"), Positional(x)[1].v)>>,
            IF Given(x)[Len(Given(x))].kind = "map"
            THEN Given(x)[Len(Given(x))] ELSE NoneAttrs >>

\* x is written as one of the shorthands of the class, or is an entry
Shorthand(cls, x) ==
    \/ x.t = "entry"
    \/ x.t = "str" /\ cls # "AutoDisplayChoices"
    \/ x.t = "tuple" /\ Len(x.items) \in (IF cls = "AutoDisplayChoices" THEN 2..4 ELSE 1..4)

\* A successful call of outcome r, given shorthands only, added to the
\* entries `before` the entries that they stand for, in order
NormalisedAdded(before, r, cls, kwargs, batch) ==
    r.err = NoError /\ (\A i \in 1..Len(batch) : Shorthand(cls, batch[i])) =>
       Declared(r.self)
          = before \o [i \in 1..Len(batch) |-> Normalised(cls, kwargs, batch[i])]

\* C20: the constructors and add_choices of the generating collections turn
\* every shorthand they accept into the entry (constant, value, display,
\* attributes) in which a trailing mapping is the attributes, a given value
\* or display is kept, a missing or None value is value_transform(constant)
\* and a missing display is display_transform(constant), the transform being
\* the one given to the constructor if any and the one of the class
\* otherwise; an entry given is kept as it is.
C20_Shorthands ==
    /\ op = "none" =>
          \A cls \in AutoClasses, b \in SeqsUpTo(AutoElements, MaxAuto), kw \in AutoKws :
             NormalisedAdded(<<>>, Choices_init(cls, b, kw, <<"C">>), cls, kw, b)
    /\ coll # Null =>
          \A x \in AutoElements :
             NormalisedAdded(Declared(coll), Call_add_choices(coll, <<x>>, NoKw),
                             ret.cls, ret.kwargs, <<x>>)
    /\ coll # Null =>
          \A i \in 1..Len(coll.entries) :
             coll.entries[i].tuple[1] = "C_D" /\ coll.entries[i].tuple[2] = "w"
                /\ coll.entries[i].attributes = AutoMapping
             => coll.entries[i] = GivenEntry

\* add_choices of an AutoChoices built with transforms in its options added
\* an entry whose value and display were generated, after an entry given
\* with attributes
C20_Witness ==
    /\ op = "add_choices"
    /\ err = NoError
    /\ ret.cls = "AutoChoices"
    /\ "value_transform" \in DOMAIN ret.kwargs
    /\ Len(coll.entries) = 2
    /\ coll.entries[1] = GivenEntry
    /\ Declared(coll)[2] = << <<"AB", "BA", "ab">>, AutoMapping >>

\* The typed attribute that was pickled: the one the accessors reached
Pickled == ret.val[ret.chain[Len(ret.chain)]]

\* The class of a typed attribute made by ChoiceAttributeMixin
ClassOf(w) == NewClass(ChoiceAttributeMixin, TypeOf(w.base))

\* The raw value of the attribute `name` of the entry of w, were it read
ReadThrough(w, name, entries) ==
    IF ChoiceAttribute_property(w, name, entries).err = NoError
    THEN <<ChoiceAttribute_property(w, name, entries).ret.base>>
    ELSE <<>>

\* C21: pickle.loads(pickle.dumps(x)) succeeds and gives an equal object:
\* for an entry, the same tuple and the same attributes; for a typed
\* attribute, the same raw value, the same class, the same constant, value
\* and display and the same extra attributes.
C21_PickleRoundTrip ==
    /\ op = "loads_entry" =>
          /\ err = NoError
          /\ extracted.tuple = ret.val.tuple
          /\ extracted.attributes = ret.val.attributes
    /\ op = "loads_attribute" =>
          /\ err = NoError
          /\ extracted.base = Pickled.base
          /\ ClassOf(extracted) = ClassOf(Pickled)
          /\ \A name \in {"constant", "value", "display"} :
                /\ ReadThrough(extracted, name, {coll}) # <<>>
                /\ ReadThrough(extracted, name, {coll}) = ReadThrough(Pickled, name, {ret.val})
          /\ extracted.attrs = Pickled.attrs

(***************************************************************************)
(* Properties of a collection over its lifetime.                           *)
(***************************************************************************)
\* Sequence s is the beginning of sequence t
Prefix(s, t) == Len(s) <= Len(t) /\ SubSeq(t, 1, Len(s)) = s

\* Every key of table d is a key of table d2, for the same entry
KeysKept(d, d2) ==
    \A i \in 1..Len(d) :
       \E j \in 1..Len(d2) : KeyRaw(d2[j][1]) = KeyRaw(d[i][1]) /\ d2[j][2] = d[i][2]

\* Collection c2 is collection c with entries appended, or c itself
AppendedOnly(c, c2) ==
    /\ Prefix(c.entries, c2.entries)
    /\ Prefix(c.list, c2.list)
    /\ KeysKept(c.constants, c2.constants)
    /\ KeysKept(c.values, c2.values)

\* C23: every call leaves the entries and the positional sequence of a
\* collection as a prefix of what they become, with the same entry objects,
\* and keeps every key of its constants and values tables mapped to the same
\* entry; this holds for C, for its recorded subsets and for an extracted
\* subset.
C23_AppendOnly ==
    [][/\ (coll # Null /\ coll' # Null) =>
             /\ AppendedOnly(coll, coll')
             /\ \A name \in Range(coll.subsets) :
                   /\ name \in Range(coll'.subsets)
                   /\ AppendedOnly(getattr(coll, name), getattr(coll', name))
       /\ (extracted # Null /\ op' = "extracted.add_choices") =>
             AppendedOnly(extracted, extracted')]_vars

\* add_choices added a second entry to a collection that has a subset
C23_Witness ==
    /\ op = "add_choices"
    /\ err = NoError
    /\ Len(coll.entries) = 2
    /\ Len(coll.subsets) = 1
    /\ Len(getattr(coll, coll.subsets[1]).entries) = 1

(***************************************************************************)
(* Properties of the kinds of error of a batch.                            *)
(***************************************************************************)
\* The batches whose tuples all have a constant and a value to read
Readable(b) ==
    \A i \in 1..Len(b) : ItemLen(b[i]) >= 2 /\ Item(b[i], 1) # None

\* A value of the batch is a value of c
ValueTaken(c, b) ==
    \E i \in 1..Len(b) :
       ValueOf(b[i]) \in {RawValue(c.entries[k]) : k \in 1..Len(c.entries)}

\* The constants of the batch pass the three checks made on them
ConstantsPass(c, b) == ~Rule1(b) /\ ~Rule2(c, b) /\ ~Rule3(c, b)

\* Error e of add_choices(b) on c tells the defect of the batch apart: the
\* duplicate-name error for two equal constants, the duplicate-value error
\* for two equal values, a conflict error for a constant or a value that c
\* holds already, each for the first defect that the checks meet, and each
\* error for its defect only
KindTellsDefect(c, b, e) ==
    /\ Rule1(b) <=> e = "ValueError:duplicate_constants"
    /\ (Rule2(c, b) /\ ~Rule1(b)) <=> e = "ValueError:existing_constants"
    /\ (Rule4(b) /\ ConstantsPass(c, b)) <=> e = "ValueError:duplicate_values"
    /\ e = "ValueError:existing_values"
          => ValueTaken(c, b) /\ ~Rule4(b) /\ ConstantsPass(c, b)
    /\ (ValueTaken(c, b) /\ ~Rule4(b) /\ ConstantsPass(c, b))
          => e \in {"ValueError:existing_values", "ValueError:unhashable_value"}
    /\ e \in {"ValueError:existing_constants", "ValueError:existing_values"}
          => e # "ValueError:duplicate_constants"

CreatorTypes == {ChoiceAttributeMixin, [class |-> "K"], [class |-> "L"]}

\* Raw values of the types int, str, float and bool
RawValues == {[t |-> "raw", v |-> x] : x \in {"1", "0", "x", "", "1.5", "True"}}

\* The typed attributes that the calls can make
Instances ==
    {[t |-> "instance", class |-> NewClass(cls, TypeOf(x)), v |-> x] :
        cls \in CreatorTypes, x \in {"1", "0", "x", "", "1.5"}}

\* The values at hand: the raw values and the typed attribute just created
ValuesAtHand ==
    RawValues \cup (IF op = "create_choice_attribute" /\ err = NoError
                    THEN {extracted} ELSE {})

InitClasses ==
    /\ coll = <<>>
    /\ extracted = Null
    /\ op = "none"
    /\ err = NoError
    /\ ret = Null

\* The call ended with outcome r
ClassReturns(r) ==
    /\ coll' = r.classes
    /\ err' = r.err
    /\ extracted' = r.ret

\* klass = cls.get_class_for_value(value)
GetClassForValue(cls, value) ==
    /\ value \in ValuesAtHand
    /\ ClassReturns(get_class_for_value(coll, cls, value))
    /\ op' = "get_class_for_value"
    /\ ret' = [cls |-> cls, value |-> value]

\* attribute = create_choice_attribute(creator_type, value, choice_entry)
CreateChoiceAttribute(creator_type, value) ==
    /\ value \in ValuesAtHand
    /\ ClassReturns(Instantiated(get_class_for_value(coll, creator_type, value), value))
    /\ op' = "create_choice_attribute"
    /\ ret' = [cls |-> creator_type, value |-> value]

NextClasses ==
    \/ \E cls \in CreatorTypes, value \in RawValues \cup Instances :
          GetClassForValue(cls, value)
    \/ \E cls \in CreatorTypes, value \in RawValues \cup Instances :
          CreateChoiceAttribute(cls, value)

SpecClasses == InitClasses /\ [][NextClasses]_vars

\* The types that are keys of the dict
CachedTypes(classes) == {classes[i][1] : i \in 1..Len(classes)}

\* The class returned by the last call
ClassReturned == IF op = "create_choice_attribute" THEN extracted.class ELSE extracted

\* C25: _classes_by_type holds at most one class per type, a call never
\* drops or replaces an item of it, a call for a raw value returns the class
\* that the dict holds for the type of the value (so two calls for values of
\* one type return the same class), that class derives from the type, and a
\* call for a value that is a typed attribute returns the class of the value
\* and leaves the dict as it is.
C25_OneClassPerType ==
    /\ [](\A i, j \in 1..Len(coll) : coll[i][1] = coll[j][1] => i = j)
    /\ [][Prefix(coll, coll')]_vars
    /\ []((op \in {"get_class_for_value", "create_choice_attribute"}
             /\ err = NoError /\ ret.value.t = "raw")
          => /\ \E i \in 1..Len(coll) :
                   coll[i] = <<TypeOf(ret.value.v), ClassReturned>>
             /\ ClassReturned.bases[2] = TypeOf(ret.value.v))
    /\ [][(op' \in {"get_class_for_value", "create_choice_attribute"}
             /\ ret'.value.t = "instance")
          => /\ err' = NoError
             /\ coll' = coll
             /\ ClassReturned' = ret'.value.class]_vars

\* A second call for an integer returned the class of the dict, which holds
\* classes for three types
C25_Witness ==
    /\ op = "get_class_for_value"
    /\ err = NoError
    /\ ret.value = [t |-> "raw", v |-> "0"]
    /\ Len(coll) = 3
    /\ coll[1][1] = "int"
    /\ extracted = coll[1][2]

\* C29: cls.get_class_for_value(v) for a raw value v, and the class of the
\* typed attribute that create_choice_attribute(cls, v, entry) makes, derive
\* from cls and have cls as creator_type, whatever the calls made before.
C29_CreatorDerived ==
    (op \in {"get_class_for_value", "create_choice_attribute"}
       /\ err = NoError /\ ret.value.t = "raw")
    => /\ ClassReturned.creator_type = ret.cls
       /\ ClassReturned.bases[1] = ret.cls

(***************************************************************************)
(* Properties of the mutable flag.                                         *)
(***************************************************************************)
\* The keyword arguments kw with mutable=False added
WithMutableFalse(kw) ==
    [k \in DOMAIN kw \cup {"mutable"} |-> IF k = "mutable" THEN FALSE ELSE kw[k]]

\* Outcome r of the constructor with mutable=False is the outcome r2 of the
\* constructor without the option, the flag apart: the same error, or the
\* same entries, tables, attributes and subsets in an immutable collection
BuiltImmutable(r, r2) ==
    /\ r.err = r2.err
    /\ r.err # NoError => r.self = Null
    /\ r.err = NoError => /\ ~r.self._mutable
                          /\ r2.self._mutable
                          /\ r.self = [r2.self EXCEPT !._mutable = FALSE]

\* Outcome r of add_subset(name, cs) on c, for a free name and distinct
\* constants of c: a subset is recorded under the name and the entries and
\* the tables of c are as before
SubsetAccepted(c, name, cs, r) ==
    (/\ ~hasattr(c, name)
     /\ Range(cs) \subseteq ConstantsOf(c)
     /\ \A i, j \in 1..Len(cs) : cs[i] = cs[j] => i = j)
    => /\ r.err = NoError
       /\ r.self.subsets = Append(c.subsets, name)
       /\ ConstantsOf(getattr(r.self, name)) = Range(cs)
       /\ ~getattr(r.self, name)._mutable
       /\ r.self._mutable = c._mutable
       /\ <<r.self.list, r.self.entries, r.self.constants, r.self.values, r.self.displays>>
             = <<c.list, c.entries, c.constants, c.values, c.displays>>

\* A choice that no collection of the model holds
FreshTuple == Tup(<<"Q", "9", "q">>)

\* Outcome r of add_choices(FreshTuple) on c: the entry is added
FreshAdded(c, r) ==
    /\ r.err = NoError
    /\ Len(r.self.entries) = Len(c.entries) + 1
    /\ r.self.entries[Len(r.self.entries)].tuple = FreshTuple.items

\* C26: a collection built with mutable=False holds what the same
\* constructor call without the option gives (the batch and the subset named
\* in the call); it then refuses every add_choices with the immutability
\* error and stays as it is, while add_subset with a free name and constants
\* of the collection records a subset and leaves the entries and the tables
\* as they are; a collection built without the option accepts add_choices.
C26_MutableFlag ==
    /\ op = "none" =>
          \A b \in Batches(MaxEntries), lead \in LeadNames, kw \in NameKws :
             BuiltImmutable(
                Choices_init("Choices", WithLead(lead, b), WithMutableFalse(kw), <<"C">>),
                Choices_init("Choices", WithLead(lead, b), kw, <<"C">>))
    /\ (coll # Null /\ ~coll._mutable) =>
          /\ \A b \in Batches(MaxEntries), lead \in LeadNames, kw \in NameKws :
                add_choices(coll, WithLead(lead, b), kw)
                   = Outcome(coll, "RuntimeError:immutable", Null)
          /\ add_choices(coll, <<FreshTuple>>, NoKw)
                = Outcome(coll, "RuntimeError:immutable", Null)
          /\ \A name \in SubsetNames, cs \in ConstantLists :
                SubsetAccepted(coll, name, cs, add_subset(coll, name, cs))
    /\ (coll # Null /\ coll._mutable) =>
          FreshAdded(coll, add_choices(coll, <<FreshTuple>>, NoKw))

\* add_subset recorded a second subset on a collection built immutable with
\* a named batch
C26_Witness ==
    /\ op = "add_subset"
    /\ err = NoError
    /\ ~coll._mutable
    /\ Len(coll.subsets) = 2
    /\ Len(coll.entries) >= 1

(***************************************************************************)
(* Properties of the leading string of a batch.                            *)
(***************************************************************************)
\* The subset names that a call with keyword arguments kw may add
NamedIn(kw) == IF KwGet(kw, "name", None) # None THEN <<kw.name>> ELSE <<>>

\* A successful call of outcome r on a collection of AutoChoices that had
\* the entries and subsets `before`: every bare string of the batch is the
\* constant of the entry added at its place, and the only subset added is
\* the one named by the option
StringsAreConstants(entries, subsets, batch, kw, r) ==
    r.err = NoError =>
       /\ Len(r.self.entries) = Len(entries) + Len(batch)
       /\ \A i \in 1..Len(batch) :
             batch[i].t = "str"
             => RawConstant(r.self.entries[Len(entries) + i]) = batch[i].s
       /\ r.self.subsets = subsets \o NamedIn(kw)

\* No string leads the batch
NoLead(batch) == batch = <<>> \/ batch[1].t # "str"

\* The new names of the subsets of a successful outcome r are `names`, and
\* r added n entries to the `before` entries
LeadIsName(before, subsets, names, n, r) ==
    r.err = NoError =>
       /\ r.self.subsets = subsets \o names
       /\ Len(r.self.entries) = before + n

\* C27: in AutoChoices and its subclasses a bare string of the batch, the
\* first argument included, is a constant to add, and a subset is created
\* while adding only for the name option; in Choices and AutoDisplayChoices
\* a leading string is the subset name and is removed from the batch: the
\* call does what the call without it and with the name option does, when
\* no other string then leads.
C27_LeadingString ==
    /\ op = "none" =>
          /\ \A cls \in AutoValueClasses, b \in SeqsUpTo(AutoElements, MaxAuto),
                kw \in AutoKws :
                StringsAreConstants(<<>>, <<>>, b, kw, Choices_init(cls, b, kw, <<"C">>))
          /\ \A b \in SeqsUpTo(AutoElements, MaxAuto - 1), lead \in {"AB", "T"} :
                /\ NoLead(b) =>
                      Choices_init("AutoDisplayChoices", <<Str(lead)>> \o b, NoKw, <<"C">>)
                         = Choices_init("AutoDisplayChoices", b, [name |-> lead], <<"C">>)
                /\ LeadIsName(0, <<>>, <<lead>>, Len(b),
                      Choices_init("AutoDisplayChoices", <<Str(lead)>> \o b, NoKw, <<"C">>))
          /\ \A b \in Batches(MaxEntries) :
                /\ Choices_init("Choices", <<Str("S")>> \o b, NoKw, <<"C">>)
                      = Choices_init("Choices", b, [name |-> "S"], <<"C">>)
                /\ LeadIsName(0, <<>>, <<"S">>, Len(b),
                      Choices_init("Choices", <<Str("S")>> \o b, NoKw, <<"C">>))
    /\ (coll # Null /\ coll.cls \in AutoValueClasses) =>
          \A x \in AutoElements, kw \in {NoKw, [name |-> "T"]} :
             StringsAreConstants(coll.entries, coll.subsets, <<x>>, kw,
                                 Call_add_choices(coll, <<x>>, kw))
    /\ (coll # Null /\ coll.cls = "AutoDisplayChoices") =>
          \A x \in AutoElements :
             /\ NoLead(<<x>>) =>
                   Call_add_choices(coll, <<Str("T"), x>>, NoKw)
                      = Call_add_choices(coll, <<x>>, [name |-> "T"])
             /\ LeadIsName(Len(coll.entries), coll.subsets, <<"T">>, 1,
                           Call_add_choices(coll, <<Str("T"), x>>, NoKw))

\* The constructor of AutoDisplayChoices took the leading string AB as the
\* name of the subset of the entry it added
C27_Witness ==
    /\ op = "construct"
    /\ err = NoError
    /\ ret.cls = "AutoDisplayChoices"
    /\ coll.subsets = <<"AB">>
    /\ Len(coll.entries) = 1
    /\ ConstantsOf(getattr(coll, "AB")) = {"C_D"}

(***************************************************************************)
(* Properties of the subsets as snapshots.                                 *)
(***************************************************************************)
\* The parent d is the parent c in all but the subset it holds as `name`
ParentKept(c, d, name) ==
    /\ d.list = c.list
    /\ d.entries = c.entries
    /\ d.constants = c.constants
    /\ d.values = c.values
    /\ d.displays = c.displays
    /\ d.subsets = c.subsets
    /\ d._mutable = c._mutable
    /\ AttrNames(d.attrs) = AttrNames(c.attrs)
    /\ \A n \in AttrNames(c.attrs) \ {name} : getattr(d, n) = getattr(c, n)

\* C28: add_choices and add_subset called on the parent leave every subset
\* that it holds as it was: its list, its entries, its three tables and its
\* own subsets; add_subset called on a subset leaves the parent as it was.
C28_Snapshot ==
    [][/\ (op' \in {"add_choices", "add_subset"} /\ coll # Null /\ coll' # Null) =>
             \A name \in Range(coll.subsets) :
                getattr(coll', name) = getattr(coll, name)
       /\ op' = "subset.add_subset" =>
             \E name \in Range(coll.subsets) : ParentKept(coll, coll', name)
      ]_vars

\* add_choices added B to a parent whose subset S holds A alone and was
\* given a subset of its own
C28_Witness ==
    /\ op = "add_choices"
    /\ err = NoError
    /\ Len(coll.entries) = 2
    /\ RawConstant(coll.entries[1]) = "A"
    /\ RawConstant(coll.entries[2]) = "B"
    /\ "S" \in Range(coll.subsets)
    /\ ConstantsOf(getattr(coll, "S")) = {"A"}
    /\ getattr(coll, "S").subsets = <<"T">>

(***************************************************************************)
(* Properties of a constant asked for twice.                               *)
(***************************************************************************)
\* Largest number of constants asked of extract_subset and add_subset
MaxAsked == 3

\* The lists of constants of c in which a constant appears more than once
Repeating(c) ==
    {cs \in SeqsUpTo(ConstantsOf(c), MaxAsked) : ConstantsDoubles(cs) # {}}

\* The call of outcome r on c failed for the constants declared twice,
\* returned nothing and left c as it was
FailedOnDoubles(c, r) ==
    /\ r.err = "ValueError:duplicate_constants"
    /\ r.ret = Null
    /\ r.self = c

====
